---- MODULE Spec2Model ----
(***************************************************************************)
(* Model of the reporting and maintenance tools of aws-sample:             *)
(*   finops-cost-report/aws_cost_report.py  (class AWSCostReporter)        *)
(*   securityhub/securityhub_dashboard.py  (class SecurityHubDashboard)    *)
(*   securityhub-cleaner/securityhub_cleaner.py  (class SecurityHubCleaner)*)
(*   organizations-operator-framework/step machine/src/                    *)
(*       securityhub-crawler/lambda_function.py  (lambda_handler)          *)
(*                                                                         *)
(* Strings are sequences of character codes, so that prefix tests, slices  *)
(* and lexicographic comparison are computed and not assumed.  Amounts are *)
(* integers (cents); the float rounding of the source is not modelled.     *)
(***************************************************************************)
EXTENDS Integers, Sequences, FiniteSets, Bags, TLC

VARIABLES
    config,       \* self.config: the validated configuration
    all_periods,  \* self.all_periods
    cost_data,    \* self.cost_data: profile -> service -> period -> amount
    fetched,      \* history: bag of the raw groups handed to _process_cost_data, of
                  \* the findings _process_findings_data went through
    pc,           \* position in __init__ / generate_reports
    idx,          \* position of the loop over config["profiles"] in generate_reports
    report,       \* the tables built so far by _generate_combined_report
    html_report,  \* the tables and charts of the HTML document
    fetch_log,    \* history: the fetches attempted, in order, with their outcome
    count,        \* the argument of a call of _generate_chart_colors
    colors,       \* and the list it returned
    findings_data,  \* SecurityHubDashboard: profile -> region -> severity -> count
    regions,        \* SecurityHubDashboard.regions
    detailed_findings,  \* SecurityHubDashboard.detailed_findings
    dashboard,      \* the tables and charts of the findings dashboard
    dry_run,          \* SecurityHubCleaner.dry_run
    total_processed,  \* SecurityHubCleaner.total_processed
    total_updated,    \* SecurityHubCleaner.total_updated
    search,           \* position of the loop over findings_search_parameters
    last_search,      \* history: what the latest _process_search_params did
    event,            \* the event of a call of lambda_handler
    result,           \* what the call returned, or that it raised
    api_calls         \* history: the AWS calls the handler made, in order

vars == <<config, all_periods, cost_data, fetched, pc, idx, report, html_report,
          fetch_log, count, colors, findings_data, regions, detailed_findings,
          dashboard, dry_run, total_processed, total_updated, search, last_search,
          event, result, api_calls>>

\* the state of a call of _generate_chart_colors, and of the findings dashboard
colorVars == <<count, colors>>
findingsVars == <<findings_data, regions, detailed_findings, dashboard>>
\* the state of the cleaner and of the crawler
cleanerVars == <<dry_run, total_processed, total_updated, search, last_search>>
crawlerVars == <<event, result, api_calls>>
toolVars == <<cleanerVars, crawlerVars>>

(***************************************************************************)
(* Bounds of the model.                                                    *)
(***************************************************************************)
\* largest amount of one raw group
MaxAmount == 1
\* most raw groups handed to _process_cost_data in one run
MaxRecords == 2
\* most ResultsByTime entries in one response
MaxEntries == 2

(***************************************************************************)
(* Strings.                                                                *)
(***************************************************************************)
S_EC2 == <<69, 67, 50>>
S_S3 == <<83, 51>>
S_Other == <<79, 116, 104, 101, 114>>
S_Tax == <<84, 97, 120>>
S_AWSSupport == <<65, 87, 83, 32, 83, 117, 112, 112, 111, 114, 116>>
\* "AWS Support (B)"
S_AWSSupportB == S_AWSSupport \o <<32, 40, 66, 41>>
S_Unknown == <<85, 110, 107, 110, 111, 119, 110>>
S_Total == <<84, 111, 116, 97, 108>>
S_prod == <<112, 114, 111, 100>>
S_dev == <<100, 101, 118>>

\* str.startswith
StartsWith(s, prefix) ==
    /\ Len(s) >= Len(prefix)
    /\ SubSeq(s, 1, Len(prefix)) = prefix

\* s[:n]
Slice(s, n) == SubSeq(s, 1, IF Len(s) < n THEN Len(s) ELSE n)

\* a < b on str: code point by code point, a proper prefix is smaller
RECURSIVE StrLess(_, _)
StrLess(a, b) ==
    IF b = <<>> THEN FALSE
    ELSE IF a = <<>> THEN TRUE
    ELSE IF a[1] # b[1] THEN a[1] < b[1]
    ELSE StrLess(Tail(a), Tail(b))

(***************************************************************************)
(* Dates: datetime values at midnight, as [y, m, d].                       *)
(***************************************************************************)
Date(y, m, d) == [y |-> y, m |-> m, d |-> d]

IsLeap(y) == (y % 4 = 0 /\ y % 100 # 0) \/ y % 400 = 0

DaysInMonth(y, m) ==
    IF m = 2 THEN (IF IsLeap(y) THEN 29 ELSE 28)
    ELSE IF m \in {4, 6, 9, 11} THEN 30
    ELSE 31

\* datetime.__lt__
DateLessOrEqual(a, b) ==
    \/ a.y < b.y
    \/ a.y = b.y /\ a.m < b.m
    \/ a.y = b.y /\ a.m = b.m /\ a.d <= b.d
DateLess(a, b) ==
    \/ a.y < b.y
    \/ a.y = b.y /\ a.m < b.m
    \/ a.y = b.y /\ a.m = b.m /\ a.d < b.d

\* current += timedelta(days=1)
NextDay(a) ==
    IF a.d < DaysInMonth(a.y, a.m) THEN Date(a.y, a.m, a.d + 1)
    ELSE IF a.m < 12 THEN Date(a.y, a.m + 1, 1)
    ELSE Date(a.y + 1, 1, 1)

Digit(n) == 48 + n
Fmt2(n) == <<Digit((n \div 10) % 10), Digit(n % 10)>>
Fmt4(n) == <<Digit((n \div 1000) % 10), Digit((n \div 100) % 10)>> \o Fmt2(n % 100)

\* strftime("%Y-%m") and strftime("%Y-%m-%d")
StrftimeYm(a) == Fmt4(a.y) \o <<45>> \o Fmt2(a.m)
StrftimeYmd(a) == StrftimeYm(a) \o <<45>> \o Fmt2(a.d)

Num2(s, i) == (s[i] - 48) * 10 + (s[i + 1] - 48)
Num4(s, i) == Num2(s, i) * 100 + Num2(s, i + 2)

\* strptime(period, "%Y-%m") and strptime(period, "%Y-%m-%d")
StrptimeYm(s) == Date(Num4(s, 1), Num2(s, 6), 1)
StrptimeYmd(s) == Date(Num4(s, 1), Num2(s, 6), Num2(s, 9))

(***************************************************************************)
(* _generate_periods                                                       *)
(***************************************************************************)
\* the step of the monthly loop: December is followed by January
NextMonth(current) ==
    IF current.m = 12 THEN [current EXCEPT !.y = current.y + 1, !.m = 1]
    ELSE [current EXCEPT !.m = current.m + 1]

RECURSIVE MonthlyLoop(_, _, _)
MonthlyLoop(current, end, periods) ==
    IF DateLess(current, end)
    THEN MonthlyLoop(NextMonth(current), end, Append(periods, StrftimeYm(current)))
    ELSE periods

RECURSIVE DailyLoop(_, _, _)
DailyLoop(current, end, periods) ==
    IF DateLess(current, end)
    THEN DailyLoop(NextDay(current), end, Append(periods, StrftimeYmd(current)))
    ELSE periods

GeneratePeriods(cfg) ==
    IF cfg.period = "monthly"
    THEN MonthlyLoop([cfg.start_date EXCEPT !.d = 1], cfg.end_date, <<>>)
    ELSE DailyLoop(cfg.start_date, cfg.end_date, <<>>)

(***************************************************************************)
(* Dictionaries: functions whose domain is the set of keys present.        *)
(***************************************************************************)
EmptyDict == <<>>

\* dict.get(k, default)
Get(dict, k, default) == IF k \in DOMAIN dict THEN dict[k] ELSE default

Put(dict, k, v) == (k :> v) @@ dict

\* k in list
InList(x, list) == \E i \in 1..Len(list) : list[i] = x

\* set(list)
ToSet(list) == {list[i] : i \in 1..Len(list)}

\* self.cost_data[profile][service][period] += amount, on the nested defaultdict:
\* every missing level is created
AddCellOverwrite(cd, profile, service, period, amount) ==
    LET byService == Get(cd, profile, EmptyDict)
        byPeriod == Get(byService, service, EmptyDict)
    IN  Put(cd, profile, Put(byService, service, Put(byPeriod, period, amount)))
AddCell(cd, profile, service, period, amount) ==
    LET byService == Get(cd, profile, EmptyDict)
        byPeriod == Get(byService, service, EmptyDict)
    IN  Put(cd, profile,
            Put(byService, service,
                Put(byPeriod, period, Get(byPeriod, period, 0) + amount)))

\* self.cost_data[profile] read on the defaultdict: a missing profile is created
Touch(cd, profile) ==
    IF profile \in DOMAIN cd THEN cd ELSE Put(cd, profile, EmptyDict)

\* self.cost_data.get(profile, {}).get(service, {}).get(period, 0.0)
Cell(cd, profile, service, period) ==
    Get(Get(Get(cd, profile, EmptyDict), service, EmptyDict), period, 0)

\* the services stored for a profile: self.cost_data[profile].keys()
Keys(cd, profile) == DOMAIN Get(cd, profile, EmptyDict)

(***************************************************************************)
(* _process_cost_data                                                      *)
(***************************************************************************)
ShowAllServices(cfg) == Len(cfg.services) = 0

\* group["Keys"][0] if group["Keys"] else "Unknown"
ServiceName(group) == IF group.Keys # <<>> THEN group.Keys[1] ELSE S_Unknown

\* the two "filter support and taxes" tests
ExcludedNever(cfg, service_name) == FALSE
Excluded(cfg, service_name) ==
    \/ StartsWith(service_name, S_AWSSupport) /\ cfg.exclude_support = TRUE
    \/ service_name = S_Tax /\ cfg.exclude_taxes = TRUE

\* show_all_services or service_name in target_services
KeptAlways(cfg, service_name) == TRUE
Kept(cfg, service_name) ==
    ShowAllServices(cfg) \/ InList(service_name, cfg.services)

\* period_start[:7] if monthly else period_start
PeriodKey(cfg, period_start) ==
    IF cfg.period = "monthly" THEN Slice(period_start, 7) ELSE period_start

\* for group in groups: ...   yields the table and other_cost
RECURSIVE GroupLoop(_, _, _, _, _, _)
GroupLoop(cfg, cd, profile, period_key, groups, other_cost) ==
    IF groups = <<>> THEN [cd |-> cd, other_cost |-> other_cost]
    ELSE LET service_name == ServiceName(Head(groups))
             cost_amount == Head(groups).Amount
         IN  IF Excluded(cfg, service_name)
             THEN GroupLoop(cfg, cd, profile, period_key, Tail(groups), other_cost)
             ELSE IF Kept(cfg, service_name)
             THEN GroupLoop(cfg,
                            AddCell(cd, profile, service_name, period_key, cost_amount),
                            profile, period_key, Tail(groups), other_cost)
             ELSE GroupLoop(cfg, cd, profile, period_key, Tail(groups),
                            other_cost + cost_amount)

\* if other_cost > 0 and not show_all_services: cost_data[profile]["Other"][period_key] += other_cost
OtherFoldDropped(cfg, cd, profile, period_key, other_cost) == cd
OtherFold(cfg, cd, profile, period_key, other_cost) ==
    IF other_cost > 0 /\ ~ShowAllServices(cfg)
    THEN AddCell(cd, profile, S_Other, period_key, other_cost)
    ELSE cd

\* for time_period in raw_data: ...
RECURSIVE ProcessCostData(_, _, _, _)
ProcessCostData(cfg, cd, raw_data, profile) ==
    IF raw_data = <<>> THEN cd
    ELSE LET time_period == Head(raw_data)
             period_key == PeriodKey(cfg, time_period.Start)
             r == GroupLoop(cfg, cd, profile, period_key, time_period.Groups, 0)
         IN  ProcessCostData(cfg,
                             OtherFold(cfg, r.cd, profile, period_key, r.other_cost),
                             Tail(raw_data), profile)

(***************************************************************************)
(* Sums.                                                                   *)
(***************************************************************************)
RECURSIVE SumSeq(_)
SumSeq(seq) == IF seq = <<>> THEN 0 ELSE Head(seq) + SumSeq(Tail(seq))

\* period_total: for service in self.cost_data[profile]: += [service].get(period, 0.0)
RECURSIVE SumServices(_, _, _, _)
SumServices(cd, profile, period, services) ==
    IF services = {} THEN 0
    ELSE LET service == CHOOSE x \in services : TRUE
         IN  Cell(cd, profile, service, period)
             + SumServices(cd, profile, period, services \ {service})

PeriodTotalWithoutOther(cd, profile, period) ==
    SumServices(cd, profile, period, Keys(cd, profile) \ {S_Other})
PeriodTotal(cd, profile, period) ==
    SumServices(cd, profile, period, Keys(cd, profile))

(***************************************************************************)
(* _should_include_service, _sort_services_by_config,                      *)
(* _sort_profiles_by_config                                                *)
(***************************************************************************)
ShouldIncludeServiceKeepsOther(cfg, service) ==
    IF Len(cfg.services) = 0 THEN TRUE
    ELSE InList(service, cfg.services)
ShouldIncludeService(cfg, service) ==
    IF Len(cfg.services) = 0 THEN service # S_Other
    ELSE InList(service, cfg.services)

\* sorted(list): a stable sort, ascending
RECURSIVE InsertByName(_, _)
InsertByName(x, sorted) ==
    IF sorted = <<>> THEN <<x>>
    ELSE IF StrLess(x, Head(sorted)) THEN <<x>> \o sorted
    ELSE <<Head(sorted)>> \o InsertByName(x, Tail(sorted))

RECURSIVE Sorted(_)
Sorted(list) ==
    IF list = <<>> THEN <<>>
    ELSE InsertByName(list[Len(list)], Sorted(SubSeq(list, 1, Len(list) - 1)))

\* list.sort(key=lambda x: x[1], reverse=True) on (name, total) pairs: stable,
\* equal totals keep their order
RECURSIVE InsertByTotalUnstable(_, _)
InsertByTotalUnstable(x, sorted) ==
    IF sorted = <<>> THEN <<x>>
    ELSE IF x[2] >= Head(sorted)[2] THEN <<x>> \o sorted
    ELSE <<Head(sorted)>> \o InsertByTotalUnstable(x, Tail(sorted))
RECURSIVE InsertByTotal(_, _)
InsertByTotal(x, sorted) ==
    IF sorted = <<>> THEN <<x>>
    ELSE IF x[2] > Head(sorted)[2] THEN <<x>> \o sorted
    ELSE <<Head(sorted)>> \o InsertByTotal(x, Tail(sorted))

RECURSIVE SortByTotalDesc(_)
SortByTotalDesc(pairs) ==
    IF pairs = <<>> THEN <<>>
    ELSE InsertByTotal(pairs[Len(pairs)], SortByTotalDesc(SubSeq(pairs, 1, Len(pairs) - 1)))

\* profile=None
NoProfile == <<>>

\* total_cost of one service in _sort_services_by_config
ServiceSortTotal(cfg, periods, cd, service, profile) ==
    IF profile # NoProfile
    THEN SumSeq([i \in 1..Len(periods) |-> Cell(cd, profile, service, periods[i])])
    ELSE SumSeq([j \in 1..Len(cfg.profiles) |->
                    SumSeq([i \in 1..Len(periods) |->
                               Cell(cd, cfg.profiles[j], service, periods[i])])])

SortServicesUnsorted(cfg, periods, cd, services_list, profile) == services_list
SortServicesByConfig(cfg, periods, cd, services_list, profile) ==
    IF cfg.sort_by = "name" THEN Sorted(services_list)
    ELSE IF cfg.sort_by = "total_cost"
    THEN LET service_totals ==
                 [i \in 1..Len(services_list) |->
                     <<services_list[i],
                       ServiceSortTotal(cfg, periods, cd, services_list[i], profile)>>]
             sorted == SortByTotalDesc(service_totals)
         IN  [i \in 1..Len(sorted) |-> sorted[i][1]]
    ELSE services_list

\* total_cost of one profile in _sort_profiles_by_config
ProfileSortTotal(periods, cd, profile) ==
    SumSeq([i \in 1..Len(periods) |-> PeriodTotal(cd, profile, periods[i])])

SortProfilesByConfig(cfg, periods, cd, profiles_list) ==
    IF cfg.sort_by = "name" THEN Sorted(profiles_list)
    ELSE IF cfg.sort_by = "total_cost"
    THEN LET profile_totals ==
                 [i \in 1..Len(profiles_list) |->
                     <<profiles_list[i], ProfileSortTotal(periods, cd, profiles_list[i])>>]
             sorted == SortByTotalDesc(profile_totals)
         IN  [i \in 1..Len(sorted) |-> sorted[i][1]]
    ELSE profiles_list

(***************************************************************************)
(* The markdown table builders.  A table is the sequence of its rows, the  *)
(* Total row last; a row is its label, one cell per period and its Total   *)
(* cell.                                                                   *)
(***************************************************************************)
Row(label, cells) == [label |-> label, cells |-> cells, total |-> SumSeq(cells)]

\* the iteration orders a Python set of these elements can have
Orderings(S) ==
    {o \in [1..Cardinality(S) -> S] : \A i, j \in 1..Cardinality(S) : o[i] = o[j] => i = j}

\* all_services of _generate_service_table_for_profile
AllServicesForProfile(cfg, cd, profile) ==
    (IF Len(cfg.services) = 0 THEN {} ELSE ToSet(cfg.services))
        \cup (IF profile \in DOMAIN cd THEN DOMAIN cd[profile] ELSE {})

\* all_services of _generate_service_total_table
AllServicesAcrossProfiles(cfg, cd) ==
    (IF Len(cfg.services) = 0 THEN {} ELSE ToSet(cfg.services))
        \cup UNION {DOMAIN cd[profile] : profile \in DOMAIN cd}

\* [service for service in all_services if self._should_include_service(service)]
FilteredServices(cfg, iteration) ==
    LET Test(service) == ShouldIncludeService(cfg, service)
    IN  SelectSeq(iteration, Test)

\* "Other" in all_services and len(self.config["services"]) > 0
HasOtherRow(cfg, all_services) ==
    S_Other \in all_services /\ Len(cfg.services) > 0

\* one service row of the per-profile table
ProfileServiceRow(periods, cd, profile, service) ==
    Row(service, [i \in 1..Len(periods) |-> Cell(cd, profile, service, periods[i])])

\* the Total row of the per-profile table
ProfileTotalRow(periods, cd, profile) ==
    Row(S_Total, [i \in 1..Len(periods) |-> PeriodTotal(cd, profile, periods[i])])

\* _generate_service_table_for_profile; iteration is the order in which the
\* set all_services is iterated
ServiceTableForProfile(cfg, periods, cd, profile, iteration) ==
    LET all_services == AllServicesForProfile(cfg, cd, profile)
        sorted_services ==
            SortServicesByConfig(cfg, periods, cd, FilteredServices(cfg, iteration), profile)
    IN  [i \in 1..Len(sorted_services) |->
            ProfileServiceRow(periods, cd, profile, sorted_services[i])]
        \o (IF HasOtherRow(cfg, all_services)
            THEN <<ProfileServiceRow(periods, cd, profile, S_Other)>>
            ELSE <<>>)
        \o <<ProfileTotalRow(periods, cd, profile)>>

\* period_total over self.config["profiles"] of one service
AcrossProfiles(cfg, cd, service, period) ==
    SumSeq([j \in 1..Len(cfg.profiles) |-> Cell(cd, cfg.profiles[j], service, period)])

\* period_total over self.config["profiles"] and every service stored
GrandPeriodTotalListedOnly(cfg, cd, period) ==
    SumSeq([j \in 1..Len(cfg.profiles) |->
               SumServices(cd, cfg.profiles[j], period,
                           Keys(cd, cfg.profiles[j]) \cap ToSet(cfg.services))])
GrandPeriodTotal(cfg, cd, period) ==
    SumSeq([j \in 1..Len(cfg.profiles) |-> PeriodTotal(cd, cfg.profiles[j], period)])

GrandTotalRow(cfg, periods, cd) ==
    Row(S_Total, [i \in 1..Len(periods) |-> GrandPeriodTotal(cfg, cd, periods[i])])

\* _generate_account_total_table
AccountTotalTable(cfg, periods, cd) ==
    LET sorted_profiles == SortProfilesByConfig(cfg, periods, cd, cfg.profiles)
    IN  [k \in 1..Len(sorted_profiles) |->
            Row(sorted_profiles[k],
                [i \in 1..Len(periods) |-> PeriodTotal(cd, sorted_profiles[k], periods[i])])]
        \o <<GrandTotalRow(cfg, periods, cd)>>

TotalServiceRow(cfg, periods, cd, service) ==
    Row(service, [i \in 1..Len(periods) |-> AcrossProfiles(cfg, cd, service, periods[i])])

\* _generate_service_total_table
ServiceTotalTable(cfg, periods, cd, iteration) ==
    LET all_services == AllServicesAcrossProfiles(cfg, cd)
        sorted_services ==
            SortServicesByConfig(cfg, periods, cd, FilteredServices(cfg, iteration), NoProfile)
    IN  [i \in 1..Len(sorted_services) |->
            TotalServiceRow(cfg, periods, cd, sorted_services[i])]
        \o (IF HasOtherRow(cfg, all_services)
            THEN <<TotalServiceRow(cfg, periods, cd, S_Other)>>
            ELSE <<>>)
        \o <<GrandTotalRow(cfg, periods, cd)>>

\* services_list of _generate_profile_service_charts: the entities of the
\* charts of one profile
ChartServicesForProfile(cfg, cd, profile) ==
    LET all_services == AllServicesForProfile(cfg, cd, profile)
        iteration == CHOOSE o \in Orderings(all_services) : TRUE
    IN  FilteredServices(cfg, Sorted(iteration))
        \o (IF HasOtherRow(cfg, all_services) THEN <<S_Other>> ELSE <<>>)

\* services_list of _generate_service_total_charts
ChartServicesAcrossProfiles(cfg, cd) ==
    LET all_services == AllServicesAcrossProfiles(cfg, cd)
        iteration == CHOOSE o \in Orderings(all_services) : TRUE
    IN  FilteredServices(cfg, Sorted(iteration))
        \o (IF HasOtherRow(cfg, all_services) THEN <<S_Other>> ELSE <<>>)

\* the builders read self.cost_data[profile] once there is a period to report:
\* the defaultdict then holds a key for every configured profile
RECURSIVE TouchAll(_, _)
TouchAll(cd, profiles) ==
    IF profiles = <<>> THEN cd ELSE TouchAll(Touch(cd, Head(profiles)), Tail(profiles))

(***************************************************************************)
(* _format_currency, _format_period_display and the rendered tables.  A    *)
(* rendered table is its header cells and its rows of cells, all strings.  *)
(***************************************************************************)
S_Taxes == <<84, 97, 120, 101, 115>>
S_Service == <<83, 101, 114, 118, 105, 99, 101>>
S_Account == <<65, 99, 99, 111, 117, 110, 116>>

\* the decimal digits of a natural number
RECURSIVE Digits(_)
Digits(n) == IF n < 10 THEN <<Digit(n)>> ELSE Digits(n \div 10) \o <<Digit(n % 10)>>

\* the "," format: groups of three digits
RECURSIVE Grouped(_)
Grouped(n) ==
    IF n < 1000 THEN Digits(n)
    ELSE Grouped(n \div 1000) \o <<44, Digit((n \div 100) % 10)>> \o Fmt2(n % 100)

\* f"$ {amount:,.2f}", the amount in cents
FormatCurrency(amount) ==
    <<36, 32>> \o Grouped(amount \div 100) \o <<46>> \o Fmt2(amount % 100)

\* strftime("%B")
MonthNames ==
    <<<<74, 97, 110, 117, 97, 114, 121>>,
      <<70, 101, 98, 114, 117, 97, 114, 121>>,
      <<77, 97, 114, 99, 104>>,
      <<65, 112, 114, 105, 108>>,
      <<77, 97, 121>>,
      <<74, 117, 110, 101>>,
      <<74, 117, 108, 121>>,
      <<65, 117, 103, 117, 115, 116>>,
      <<83, 101, 112, 116, 101, 109, 98, 101, 114>>,
      <<79, 99, 116, 111, 98, 101, 114>>,
      <<78, 111, 118, 101, 109, 98, 101, 114>>,
      <<68, 101, 99, 101, 109, 98, 101, 114>>>>

\* _format_period_display: the month name, or DD/MM
FormatPeriodDisplay(cfg, period) ==
    IF cfg.period = "monthly" THEN MonthNames[StrptimeYm(period).m]
    ELSE LET date_obj == StrptimeYmd(period)
         IN  Fmt2(date_obj.d) \o <<47>> \o Fmt2(date_obj.m)

\* the header cells of a table
Headers(cfg, periods, first) ==
    <<first>> \o [i \in 1..Len(periods) |-> FormatPeriodDisplay(cfg, periods[i])]
        \o <<S_Total>>

\* the cells of one row: its label and the formatted amounts
FormatRow(row) ==
    <<row.label>> \o [i \in 1..Len(row.cells) |-> FormatCurrency(row.cells[i])]
        \o <<FormatCurrency(row.total)>>

RenderedTable(headers, table) ==
    [headers |-> headers, rows |-> [k \in 1..Len(table) |-> FormatRow(table[k])]]

\* the text of the markdown tables: header line and one line per row
MarkdownServiceTable(cfg, periods, table) ==
    RenderedTable(Headers(cfg, periods, S_Service), table)

MarkdownAccountTable(cfg, periods, table) ==
    RenderedTable(Headers(cfg, periods, S_Account), table)

\* the "Taxes" row of the HTML builders reads self.tax_data, an attribute that
\* no code sets: AttributeError, once there is a period to read it for
HtmlTaxesRowAlways(cfg, periods, all_services) ==
    /\ S_Taxes \in all_services
    /\ ShouldIncludeService(cfg, S_Taxes)
HtmlTaxesRow(cfg, periods, all_services) ==
    /\ periods # <<>>
    /\ S_Taxes \in all_services
    /\ ShouldIncludeService(cfg, S_Taxes)

\* _generate_service_table_html raises for this profile
ServiceTableHtmlRaises(cfg, periods, cd, profile) ==
    HtmlTaxesRow(cfg, periods, AllServicesForProfile(cfg, cd, profile))

\* _generate_service_table_html, when it returns
ServiceTableHtml(cfg, periods, cd, profile, iteration) ==
    RenderedTable(Headers(cfg, periods, S_Service),
                  ServiceTableForProfile(cfg, periods, cd, profile, iteration))

\* _generate_account_total_table_html
AccountTotalTableHtml(cfg, periods, cd) ==
    RenderedTable(Headers(cfg, periods, S_Account), AccountTotalTable(cfg, periods, cd))

\* _generate_service_total_table_html raises
ServiceTotalTableHtmlRaises(cfg, periods, cd) ==
    HtmlTaxesRow(cfg, periods, AllServicesAcrossProfiles(cfg, cd))

\* _generate_service_total_table_html, when it returns
ServiceTotalTableHtml(cfg, periods, cd, iteration) ==
    RenderedTable(Headers(cfg, periods, S_Service),
                  ServiceTotalTable(cfg, periods, cd, iteration))

(***************************************************************************)
(* _generate_chart_colors and the chart datasets.                          *)
(***************************************************************************)
Palette ==
    <<<<35, 70, 70, 54, 51, 56, 52>>,
      <<35, 51, 54, 65, 50, 69, 66>>,
      <<35, 70, 70, 67, 69, 53, 54>>,
      <<35, 52, 66, 67, 48, 67, 48>>,
      <<35, 57, 57, 54, 54, 70, 70>>,
      <<35, 70, 70, 57, 70, 52, 48>>,
      <<35, 70, 70, 54, 66, 54, 66>>,
      <<35, 52, 69, 67, 68, 67, 52>>,
      <<35, 52, 53, 66, 55, 68, 49>>,
      <<35, 57, 54, 67, 69, 66, 52>>,
      <<35, 70, 70, 69, 65, 65, 55>>,
      <<35, 68, 68, 65, 48, 68, 68>>,
      <<35, 57, 56, 68, 56, 67, 56>>,
      <<35, 70, 55, 68, 67, 54, 70>>,
      <<35, 66, 66, 56, 70, 67, 69>>,
      <<35, 56, 53, 67, 49, 69, 57>>,
      <<35, 70, 56, 67, 52, 55, 49>>,
      <<35, 56, 50, 69, 48, 65, 65>>,
      <<35, 70, 49, 57, 52, 56, 65>>,
      <<35, 56, 53, 57, 50, 57, 69>>,
      <<35, 53, 68, 65, 68, 69, 50>>,
      <<35, 53, 56, 68, 54, 56, 68>>,
      <<35, 70, 52, 68, 48, 51, 70>>,
      <<35, 65, 70, 55, 65, 67, 53>>,
      <<35, 53, 52, 57, 57, 67, 55>>,
      <<35, 53, 50, 66, 69, 56, 48>>,
      <<35, 70, 51, 57, 67, 49, 50>>,
      <<35, 69, 55, 52, 67, 51, 67>>,
      <<35, 56, 69, 52, 52, 65, 68>>,
      <<35, 51, 52, 57, 56, 68, 66>>>>

\* list * k
RECURSIVE Repeat(_, _)
Repeat(list, k) == IF k <= 0 THEN <<>> ELSE list \o Repeat(list, k - 1)

\* colors[:count] if count <= len(colors) else colors * ((count // len(colors)) + 1)
GenerateChartColorsNoCycle(n) == SubSeq(Palette, 1, IF n <= Len(Palette) THEN n ELSE Len(Palette))
GenerateChartColors(n) ==
    IF n <= Len(Palette) THEN SubSeq(Palette, 1, n)
    ELSE Repeat(Palette, (n \div Len(Palette)) + 1)

\* one series of the stacked bar chart
Dataset(label, data, color) == [label |-> label, data |-> data, backgroundColor |-> color]

\* the pie chart: the entities whose total is > 0, with their totals and colors
PieChartKeepsZero(labels, totals, chart_colors) ==
    [labels |-> labels, data |-> totals,
     colors |-> [i \in 1..Len(labels) |-> chart_colors[i]]]
PieChart(labels, totals, chart_colors) ==
    LET Positive(i) == totals[i] > 0
        kept == SelectSeq([i \in 1..Len(labels) |-> i], Positive)
    IN  [labels |-> [k \in 1..Len(kept) |-> labels[kept[k]]],
         data |-> [k \in 1..Len(kept) |-> totals[kept[k]]],
         colors |-> [k \in 1..Len(kept) |-> chart_colors[kept[k]]]]

\* return "": no chart is emitted
NoChart ==
    [rendered |-> FALSE, datasets |-> <<>>,
     pie |-> [labels |-> <<>>, data |-> <<>>, colors |-> <<>>]]

Charts(datasets, pie) == [rendered |-> TRUE, datasets |-> datasets, pie |-> pie]

\* _generate_profile_service_charts
ProfileServiceCharts(cfg, periods, cd, profile) ==
    LET services_list == ChartServicesForProfile(cfg, cd, profile)
        chart_colors == GenerateChartColors(Len(services_list))
        period_data == [i \in 1..Len(services_list) |->
                           [k \in 1..Len(periods) |->
                               Cell(cd, profile, services_list[i], periods[k])]]
        datasets == [i \in 1..Len(services_list) |->
                        Dataset(services_list[i], period_data[i], chart_colors[i])]
        pie == PieChart(services_list,
                        [i \in 1..Len(services_list) |-> SumSeq(period_data[i])],
                        chart_colors)
    IN  IF services_list = <<>> THEN NoChart
        ELSE IF pie.labels = <<>> THEN NoChart
        ELSE Charts(datasets, pie)

\* _generate_service_total_charts
ServiceTotalCharts(cfg, periods, cd) ==
    LET services_list == ChartServicesAcrossProfiles(cfg, cd)
        chart_colors == GenerateChartColors(Len(services_list))
        period_data == [i \in 1..Len(services_list) |->
                           [k \in 1..Len(periods) |->
                               AcrossProfiles(cfg, cd, services_list[i], periods[k])]]
        datasets == [i \in 1..Len(services_list) |->
                        Dataset(services_list[i], period_data[i], chart_colors[i])]
    IN  Charts(datasets,
               PieChart(services_list,
                        [i \in 1..Len(services_list) |-> SumSeq(period_data[i])],
                        chart_colors))

\* _generate_account_total_charts
AccountTotalCharts(cfg, periods, cd) ==
    LET account_names == cfg.profiles
        chart_colors == GenerateChartColors(Len(account_names))
        period_data == [i \in 1..Len(account_names) |->
                           [k \in 1..Len(periods) |->
                               PeriodTotal(cd, account_names[i], periods[k])]]
        datasets == [i \in 1..Len(account_names) |->
                        Dataset(account_names[i], period_data[i], chart_colors[i])]
    IN  Charts(datasets,
               PieChart(account_names,
                        [i \in 1..Len(account_names) |-> SumSeq(period_data[i])],
                        chart_colors))

(***************************************************************************)
(* The responses of get_cost_and_usage.                                    *)
(***************************************************************************)
ServiceNames == {S_EC2, S_S3, S_Other, S_Tax, S_AWSSupportB}

Amounts == 0..MaxAmount

GroupSet == [Keys : {<<name>> : name \in ServiceNames}, Amount : Amounts]

\* TimePeriod.Start of the buckets of the window: the first bucket starts at
\* start_date, a later monthly bucket on the first day of its month; a bucket
\* starting at start_date if the window has no period
ResponseStarts(cfg, periods) ==
    IF periods = <<>> THEN {StrftimeYmd(cfg.start_date)}
    ELSE IF cfg.period = "monthly"
    THEN {IF i = 1 THEN StrftimeYmd(cfg.start_date) ELSE periods[i] \o <<45, 48, 49>> :
            i \in 1..Len(periods)}
    ELSE ToSet(periods)

TimePeriods(cfg, periods, k) ==
    [Start : ResponseStarts(cfg, periods), Groups : [1..k -> GroupSet]]

\* ResultsByTime: at most e entries holding at most n groups altogether
RECURSIVE ResultsByTime(_, _, _, _)
ResultsByTime(cfg, periods, e, n) ==
    {<<>>} \cup
    (IF e = 0 THEN {}
     ELSE UNION {{<<time_period>> \o rest :
                    time_period \in TimePeriods(cfg, periods, k),
                    rest \in ResultsByTime(cfg, periods, e - 1, n - k)} : k \in 0..n})

\* the raw groups of a response, as history records
RECURSIVE GroupRecords(_, _, _)
GroupRecords(profile, start, groups) ==
    IF groups = <<>> THEN EmptyBag
    ELSE SetToBag({[profile |-> profile, service |-> ServiceName(Head(groups)),
                    start |-> start, amount |-> Head(groups).Amount]})
         (+) GroupRecords(profile, start, Tail(groups))

RECURSIVE Records(_, _)
Records(profile, raw_data) ==
    IF raw_data = <<>> THEN EmptyBag
    ELSE GroupRecords(profile, Head(raw_data).Start, Head(raw_data).Groups)
         (+) Records(profile, Tail(raw_data))

(***************************************************************************)
(* The run: __init__, then generate_reports.                               *)
(***************************************************************************)
NoReport == [profile_tables |-> <<>>, account_total |-> <<>>, service_total |-> <<>>]

\* no HTML document yet
NoHtml ==
    [profile_tables |-> <<>>, profile_charts |-> <<>>,
     account_total |-> <<>>, account_charts |-> NoChart,
     service_total |-> <<>>, service_charts |-> NoChart]

\* no findings dashboard yet
NoDashboard ==
    [account_tables |-> <<>>, account_charts |-> <<>>,
     global_summary |-> <<>>, global_charts |-> NoChart]

\* no call of _generate_chart_colors, no findings dashboard
ColorsIdle == count = 0 /\ colors = <<>>
FindingsIdle ==
    /\ findings_data = EmptyDict
    /\ regions = {}
    /\ detailed_findings = <<>>
    /\ dashboard = NoDashboard

\* no search processed yet by the cleaner
NoSearch ==
    [found |-> 0, identifiers |-> <<>>, calls |-> <<>>, responses |-> <<>>,
     outcome |-> "none"]

\* no call of lambda_handler
NoEvent == [accountId |-> <<>>, accountName |-> <<>>, accountStatus |-> "", region |-> <<>>]
NoResult ==
    [t |-> "none", accountId |-> <<>>, accountName |-> <<>>, accountStatus |-> "",
     region |-> <<>>, status |-> "", masterAccountId |-> <<>>, standards |-> <<>>]

\* no cleaner, no crawler
CleanerIdle ==
    /\ dry_run = FALSE
    /\ total_processed = 0
    /\ total_updated = 0
    /\ search = 1
    /\ last_search = NoSearch
CrawlerIdle ==
    /\ event = NoEvent
    /\ result = NoResult
    /\ api_calls = <<>>
ToolsIdle == CleanerIdle /\ CrawlerIdle

ServicesOptions == {<<>>, <<S_EC2>>, <<S_EC2, S_Other>>}

\* the report window of the runs: two months, from the middle of the first
MonthlyWindow ==
    [start_date |-> Date(2024, 1, 15), end_date |-> Date(2024, 3, 1), period |-> "monthly"]

\* and a window of two days
DailyWindow ==
    [start_date |-> Date(2024, 1, 31), end_date |-> Date(2024, 2, 2), period |-> "daily"]

\* windows without a period: end_date is start_date; end_date is the first
\* day of the month of start_date
ZeroDailyWindow ==
    [start_date |-> Date(2024, 1, 31), end_date |-> Date(2024, 1, 31), period |-> "daily"]

ZeroMonthlyWindow ==
    [start_date |-> Date(2024, 1, 15), end_date |-> Date(2024, 1, 1), period |-> "monthly"]

Config(sv, sb, w, et, es) ==
    [profiles |-> <<S_prod, S_dev>>, services |-> sv, sort_by |-> sb,
     report_format |-> "markdown",
     start_date |-> w.start_date, end_date |-> w.end_date, period |-> w.period,
     exclude_taxes |-> et, exclude_support |-> es]

\* every allow-list, sort policy and pair of exclusion flags over the monthly
\* window; every allow-list over the daily window
Configs ==
    {Config(sv, sb, MonthlyWindow, et, es) :
        sv \in ServicesOptions, sb \in {"name", "total_cost"},
        et \in BOOLEAN, es \in BOOLEAN}
    \cup {Config(sv, "total_cost", DailyWindow, FALSE, TRUE) : sv \in ServicesOptions}

Init ==
    /\ config \in Configs
    /\ all_periods = GeneratePeriods(config)
    /\ cost_data = EmptyDict
    /\ fetched = EmptyBag
    /\ pc = "fetch"
    /\ idx = 1
    /\ report = NoReport
    /\ html_report = NoHtml
    /\ fetch_log = <<>>
    /\ ColorsIdle
    /\ FindingsIdle
    /\ ToolsIdle

\* for profile in self.config["profiles"]: the fetch of the profile has returned
AfterFetchBuildsInLoop(outcome) ==
    /\ idx' = idx + 1
    /\ pc' = "report"
    /\ fetch_log' = Append(fetch_log, [profile |-> config.profiles[idx], outcome |-> outcome])
AfterFetchRetries(outcome) ==
    /\ idx' = IF outcome = "failed" THEN idx ELSE idx + 1
    /\ pc' = IF idx = Len(config.profiles) /\ outcome # "failed" THEN "report" ELSE "fetch"
    /\ fetch_log' = Append(fetch_log, [profile |-> config.profiles[idx], outcome |-> outcome])
AfterFetch(outcome) ==
    /\ idx' = idx + 1
    /\ pc' = IF idx = Len(config.profiles) THEN "report" ELSE "fetch"
    /\ fetch_log' = Append(fetch_log, [profile |-> config.profiles[idx], outcome |-> outcome])

\* _get_cost_data(profile): the response is processed
GetCostData ==
    /\ pc = "fetch"
    /\ \E raw_data \in ResultsByTime(config, all_periods, MaxEntries,
                                     MaxRecords - BagCardinality(fetched)) :
          /\ cost_data' = ProcessCostData(config, cost_data, raw_data, config.profiles[idx])
          /\ fetched' = fetched (+) Records(config.profiles[idx], raw_data)
    /\ AfterFetch("ok")
    /\ UNCHANGED <<toolVars, config, all_periods, report, html_report, colorVars, findingsVars>>

\* _get_cost_data(profile): no client, ClientError or NoCredentialsError
GetCostDataFails ==
    /\ pc = "fetch"
    /\ AfterFetch("failed")
    /\ UNCHANGED <<toolVars, config, all_periods, cost_data, fetched, report, html_report,
                   colorVars, findingsVars>>

\* _generate_combined_report("markdown")
GenerateCombinedReport ==
    /\ pc = "report"
    /\ config.report_format \in {"markdown", "both"}
    /\ LET n == Len(config.profiles)
           ProfileTables(j) ==
               {ServiceTableForProfile(config, all_periods, cost_data, config.profiles[j], o) :
                   o \in Orderings(AllServicesForProfile(config, cost_data, config.profiles[j]))}
           cd == IF all_periods = <<>> THEN cost_data ELSE TouchAll(cost_data, config.profiles)
           ServiceTotals ==
               {ServiceTotalTable(config, all_periods, cd, o) :
                   o \in Orderings(AllServicesAcrossProfiles(config, cd))}
       IN  /\ \E pt \in [1..n -> UNION {ProfileTables(j) : j \in 1..n}] :
              \E st \in ServiceTotals :
                 /\ \A j \in 1..n : pt[j] \in ProfileTables(j)
                 /\ report' = [profile_tables |-> pt,
                               account_total |-> AccountTotalTable(config, all_periods, cd),
                               service_total |-> st]
           /\ cost_data' = cd
    /\ pc' = IF config.report_format = "both" THEN "html" ELSE "done"
    /\ UNCHANGED <<toolVars, config, all_periods, fetched, idx, html_report, fetch_log,
                   colorVars, findingsVars>>

Next == GetCostData \/ GetCostDataFails \/ GenerateCombinedReport

Spec == Init /\ [][Next]_vars

(***************************************************************************)
(* The constructor alone, over a range of report windows.                  *)
(***************************************************************************)
\* the dates tried as start_date and end_date: windows around the end of
\* February of a common year, over the turn of the year, and around the end of
\* February of a leap year
WindowClusters ==
    {{Date(2023, 2, 1), Date(2023, 2, 15), Date(2023, 2, 28), Date(2023, 3, 1),
      Date(2023, 3, 15)},
     {Date(2023, 12, 15), Date(2023, 12, 31), Date(2024, 1, 1), Date(2024, 1, 15),
      Date(2024, 1, 31), Date(2024, 2, 1), Date(2024, 2, 15)},
     {Date(2024, 1, 15), Date(2024, 2, 1), Date(2024, 2, 28), Date(2024, 2, 29),
      Date(2024, 3, 1)}}

PeriodConfigs ==
    {[profiles |-> <<S_prod, S_dev>>, services |-> <<>>, sort_by |-> "name",
      report_format |-> "markdown",
      start_date |-> w[1], end_date |-> w[2], period |-> p,
      exclude_taxes |-> FALSE, exclude_support |-> FALSE] :
        w \in UNION {c \X c : c \in WindowClusters},
        p \in {"daily", "monthly"}}

InitPeriods ==
    /\ config \in PeriodConfigs
    /\ all_periods = <<>>
    /\ cost_data = EmptyDict
    /\ fetched = EmptyBag
    /\ pc = "init"
    /\ idx = 1
    /\ report = NoReport
    /\ html_report = NoHtml
    /\ fetch_log = <<>>
    /\ ColorsIdle
    /\ FindingsIdle
    /\ ToolsIdle

\* __init__: self.all_periods = self._generate_periods()
Construct ==
    /\ pc = "init"
    /\ all_periods' = GeneratePeriods(config)
    /\ pc' = "fetch"
    /\ UNCHANGED <<toolVars, config, cost_data, fetched, idx, report, html_report, fetch_log,
                   colorVars, findingsVars>>

NextPeriods == Construct

SpecPeriods == InitPeriods /\ [][NextPeriods]_vars

(***************************************************************************)
(* _load_config and _validate_config.  The YAML document maps each field   *)
(* it holds to a typed value.                                              *)
(***************************************************************************)
Str(v) == [t |-> "str", v |-> v]
List(v) == [t |-> "list", v |-> v]
Bool(v) == [t |-> "bool", v |-> v]
\* an unquoted date, which YAML loads as a datetime.date
YamlDate(y, m, d) == [t |-> "date", v |-> <<y, m, d>>]

required_fields ==
    <<"report_name", "report_format", "sort_by", "profiles", "services",
      "start_date", "end_date", "period", "exclude_taxes", "exclude_support">>

IsDigit(c) == c \in 48..57

\* the month field of "%Y-%m-%d": 1[0-2]|0[1-9]|[1-9]
MatchesMonth(f) ==
    \/ Len(f) = 2 /\ f[1] = 49 /\ f[2] \in 48..50
    \/ Len(f) = 2 /\ f[1] = 48 /\ f[2] \in 49..57
    \/ Len(f) = 1 /\ f[1] \in 49..57

\* the day field: 3[0-1]|[1-2]\d|0[1-9]|[1-9]| [1-9]
MatchesDay(f) ==
    \/ Len(f) = 2 /\ f[1] = 51 /\ f[2] \in 48..49
    \/ Len(f) = 2 /\ f[1] \in 49..50 /\ IsDigit(f[2])
    \/ Len(f) = 2 /\ f[1] \in {48, 32} /\ f[2] \in 49..57
    \/ Len(f) = 1 /\ f[1] \in 49..57

\* the value of a field of one or two characters
FieldValue(f) ==
    IF Len(f) = 1 THEN f[1] - 48
    ELSE (IF f[1] = 32 THEN 0 ELSE (f[1] - 48) * 10) + (f[2] - 48)

\* the length of the month field of a string that matches "%Y-%m-%d"; 0 if it
\* does not match
MonthFieldLen(s) ==
    LET Fits(ml) ==
            /\ Len(s) \in {7 + ml, 8 + ml}
            /\ \A i \in 1..4 : IsDigit(s[i])
            /\ s[5] = 45
            /\ s[6 + ml] = 45
            /\ MatchesMonth(SubSeq(s, 6, 5 + ml))
            /\ MatchesDay(SubSeq(s, 7 + ml, Len(s)))
    IN  IF Fits(1) THEN 1 ELSE IF Fits(2) THEN 2 ELSE 0

\* datetime.strptime(s, "%Y-%m-%d") of a string that matches
ParseYmd(s) ==
    LET ml == MonthFieldLen(s)
    IN  Date(Num4(s, 1), FieldValue(SubSeq(s, 6, 5 + ml)), FieldValue(SubSeq(s, 7 + ml, Len(s))))

\* datetime.strptime(s, "%Y-%m-%d") raises ValueError
StrptimeRaises(s) ==
    \/ MonthFieldLen(s) = 0
    \/ ParseYmd(s).y < 1
    \/ ParseYmd(s).d > DaysInMonth(ParseYmd(s).y, ParseYmd(s).m)

\* _validate_config: "ok", "exit" for sys.exit(1), "raise" for the TypeError of
\* strptime on a value that is not a str
ValidateConfig(file) ==
    IF \E i \in 1..Len(required_fields) : file[required_fields[i]].t = "absent"
    THEN "exit"
    ELSE IF file.services.t # "list" THEN "exit"
    ELSE IF file.period.t # "str" \/ file.period.v \notin {"daily", "monthly"} THEN "exit"
    ELSE IF file.report_format.t # "str"
            \/ file.report_format.v \notin {"markdown", "html", "both"} THEN "exit"
    ELSE IF file.sort_by.t # "str" \/ file.sort_by.v \notin {"name", "total_cost"}
    THEN "exit"
    ELSE IF file.start_date.t # "str" THEN "raise"
    ELSE IF StrptimeRaises(file.start_date.v) THEN "exit"
    ELSE IF file.end_date.t # "str" THEN "raise"
    ELSE IF StrptimeRaises(file.end_date.v) THEN "exit"
    ELSE "ok"

\* self.config of a valid file, the dates as _generate_periods parses them
LoadedConfig(file) ==
    [profiles |-> file.profiles.v, services |-> file.services.v,
     sort_by |-> file.sort_by.v, report_format |-> file.report_format.v,
     start_date |-> ParseYmd(file.start_date.v), end_date |-> ParseYmd(file.end_date.v),
     period |-> file.period.v,
     exclude_taxes |-> file.exclude_taxes.v, exclude_support |-> file.exclude_support.v]

S_report_name == <<99, 111, 115, 116, 45, 114, 101, 112, 111, 114, 116>>

\* the YAML document of a configuration
ConfigFile(cfg) ==
    [report_name |-> Str(S_report_name), report_format |-> Str(cfg.report_format),
     sort_by |-> Str(cfg.sort_by), profiles |-> List(cfg.profiles),
     services |-> List(cfg.services),
     start_date |-> Str(StrftimeYmd(cfg.start_date)),
     end_date |-> Str(StrftimeYmd(cfg.end_date)), period |-> Str(cfg.period),
     exclude_taxes |-> Bool(cfg.exclude_taxes), exclude_support |-> Bool(cfg.exclude_support)]

\* the document without one of its fields
Without(file, field) == [file EXCEPT ![field] = [t |-> "absent", v |-> @.v]]

\* the documents of the runs: an HTML report for the allow-lists empty, of one
\* service, and naming "Taxes", under both sort policies, and for an allow-list
\* naming "Other"; both reports; a markdown report; both reports and an HTML
\* report over windows without a period
ValidFiles ==
    {ConfigFile([Config(sv, sb, MonthlyWindow, FALSE, TRUE) EXCEPT !.report_format = "html"]) :
        sv \in {<<>>, <<S_EC2>>, <<S_EC2, S_Taxes>>}, sb \in {"name", "total_cost"}}
    \cup {ConfigFile([Config(sv, "total_cost", MonthlyWindow, FALSE, TRUE)
                         EXCEPT !.report_format = "both"]) :
            sv \in {<<S_EC2>>, <<S_EC2, S_Taxes>>}}
    \cup {ConfigFile([Config(<<S_EC2, S_Other>>, "total_cost", MonthlyWindow, FALSE, TRUE)
                         EXCEPT !.report_format = "html"]),
          ConfigFile(Config(<<S_EC2>>, "name", MonthlyWindow, FALSE, TRUE)),
          ConfigFile([Config(<<S_EC2, S_Taxes>>, "total_cost", ZeroDailyWindow, FALSE, TRUE)
                         EXCEPT !.report_format = "both"]),
          ConfigFile([Config(<<>>, "name", ZeroMonthlyWindow, FALSE, TRUE)
                         EXCEPT !.report_format = "html"])}

BaseFile == ConfigFile(Config(<<S_EC2>>, "name", MonthlyWindow, FALSE, TRUE))

\* documents with one defect, or with a date that is not zero-padded
DefectFiles ==
    {Without(BaseFile, required_fields[i]) : i \in 1..Len(required_fields)}
    \cup {[BaseFile EXCEPT !.services = Str(S_EC2)],
          [BaseFile EXCEPT !.period = Str("weekly")],
          [BaseFile EXCEPT !.report_format = Str("pdf")],
          [BaseFile EXCEPT !.sort_by = Str("cost")],
          \* "15/01/2024"
          [BaseFile EXCEPT !.start_date = Str(<<49, 53, 47, 48, 49, 47, 50, 48, 50, 52>>)],
          \* "2024-02-30"
          [BaseFile EXCEPT !.end_date = Str(<<50, 48, 50, 52, 45, 48, 50, 45, 51, 48>>)],
          [BaseFile EXCEPT !.start_date = YamlDate(2024, 1, 15)],
          \* "2024-1-15"
          [BaseFile EXCEPT !.start_date = Str(<<50, 48, 50, 52, 45, 49, 45, 49, 53>>)]}

InitRun ==
    /\ config \in ValidFiles \cup DefectFiles
    /\ all_periods = <<>>
    /\ cost_data = EmptyDict
    /\ fetched = EmptyBag
    /\ pc = "load"
    /\ idx = 1
    /\ report = NoReport
    /\ html_report = NoHtml
    /\ fetch_log = <<>>
    /\ ColorsIdle
    /\ FindingsIdle
    /\ ToolsIdle

\* __init__: self.config = self._load_config(config_file)
LoadConfig ==
    /\ pc = "load"
    /\ LET outcome == ValidateConfig(config)
       IN  /\ config' = IF outcome = "ok" THEN LoadedConfig(config) ELSE config
           /\ pc' = IF outcome = "ok" THEN "init"
                    ELSE IF outcome = "exit" THEN "exit" ELSE "crashed"
    /\ UNCHANGED <<toolVars, all_periods, cost_data, fetched, idx, report, html_report, fetch_log,
                   colorVars, findingsVars>>

(***************************************************************************)
(* Responses with a malformed record: a ResultsByTime entry without its    *)
(* TimePeriod, or a group without its Metrics.  _process_cost_data reads   *)
(* both with [], and _get_cost_data catches ClientError and                *)
(* NoCredentialsError only: the KeyError leaves generate_reports.          *)
(***************************************************************************)
\* the value standing for a key that the record does not hold
NoAmount == -1
NoStart == <<-1>>

\* group["Metrics"]["UnblendedCost"]["Amount"] is there
WellFormedGroup(group) == group.Amount # NoAmount

\* time_period["TimePeriod"]["Start"] is there
WellFormedEntry(time_period) == time_period.Start # NoStart

\* a group without Metrics
BadGroups == {[Keys |-> <<S_EC2>>, Amount |-> NoAmount]}

\* the well-formed groups next to a malformed record: a listed and an
\* unlisted service
GroupsAround == {group \in GroupSet : ServiceName(group) \in {S_EC2, S_S3} /\ group.Amount = MaxAmount}

\* the malformed entries with b groups before the malformed record and a after
BadEntries(cfg, periods, b, a) ==
    (IF a = 0
     THEN {[Start |-> NoStart, Groups |-> groups] : groups \in [1..b -> GroupsAround]}
     ELSE {})
    \cup {[Start |-> start, Groups |-> before \o <<group>> \o after] :
            start \in ResponseStarts(cfg, periods), before \in [1..b -> GroupsAround],
            group \in BadGroups, after \in [1..a -> GroupsAround]}

\* no entry, or one well-formed entry of n groups
EntriesAround(cfg, periods, n) ==
    IF n = 0 THEN {<<>>}
    ELSE {<<[Start |-> start, Groups |-> groups]>> :
             start \in ResponseStarts(cfg, periods), groups \in [1..n -> GroupsAround]}

\* the responses with one malformed entry and n well-formed groups around it
MalformedResults(cfg, periods, n) ==
    UNION {{prefix \o <<bad>> \o suffix :
               prefix \in EntriesAround(cfg, periods, q[1]),
               bad \in BadEntries(cfg, periods, q[2], q[3]),
               suffix \in EntriesAround(cfg, periods, q[4])} :
           q \in {r \in (0..n) \X (0..n) \X (0..n) \X (0..n) : r[1] + r[2] + r[3] + r[4] <= n}}

\* the position of the first element that fails a test
RECURSIVE FirstBad(_, _, _)
FirstBad(list, Good(_), i) ==
    IF i > Len(list) THEN 0
    ELSE IF ~Good(list[i]) THEN i
    ELSE FirstBad(list, Good, i + 1)

\* _process_cost_data up to the KeyError: the entries before the malformed one
\* are processed whole; of the malformed entry, the kept groups before the
\* malformed group are in their cells and other_cost is lost
ProcessUntilRaise(cfg, cd, raw_data, profile) ==
    LET k == FirstBad(raw_data, WellFormedEntry, 1)
        k2 == IF k = 0 THEN Len(raw_data) + 1 ELSE k
        GoodEntry(time_period) ==
            WellFormedEntry(time_period)
                /\ FirstBad(time_period.Groups, WellFormedGroup, 1) = 0
        m == FirstBad(SubSeq(raw_data, 1, k2 - 1), GoodEntry, 1)
    IN  IF m = 0
        THEN ProcessCostData(cfg, cd, SubSeq(raw_data, 1, k2 - 1), profile)
        ELSE LET time_period == raw_data[m]
                 g == FirstBad(time_period.Groups, WellFormedGroup, 1)
             IN  GroupLoop(cfg,
                           ProcessCostData(cfg, cd, SubSeq(raw_data, 1, m - 1), profile),
                           profile, PeriodKey(cfg, time_period.Start),
                           SubSeq(time_period.Groups, 1, g - 1), 0).cd

\* the well-formed records of a response
WellFormedOnly(raw_data) ==
    LET entries == SelectSeq(raw_data, WellFormedEntry)
    IN  [i \in 1..Len(entries) |->
            [Start |-> entries[i].Start,
             Groups |-> SelectSeq(entries[i].Groups, WellFormedGroup)]]

\* _get_cost_data(profile): the response holds a malformed record
GetCostDataRaises ==
    /\ pc = "fetch"
    /\ \E raw_data \in MalformedResults(config, all_periods,
                                        MaxRecords - BagCardinality(fetched)) :
          /\ cost_data' = ProcessUntilRaise(config, cost_data, raw_data, config.profiles[idx])
          /\ fetched' = fetched (+) Records(config.profiles[idx], WellFormedOnly(raw_data))
    /\ pc' = "crashed"
    /\ fetch_log' = Append(fetch_log, [profile |-> config.profiles[idx], outcome |-> "raised"])
    /\ UNCHANGED <<toolVars, config, all_periods, idx, report, html_report, colorVars, findingsVars>>

(***************************************************************************)
(* _generate_combined_report("html")                                       *)
(***************************************************************************)
\* the iteration orders of all_services: a set built twice in the same way is
\* iterated in the same order, so the order is the one of the markdown table
\* if that was built
ProfileOrders(j) ==
    {o \in Orderings(AllServicesForProfile(config, cost_data, config.profiles[j])) :
        report # NoReport =>
            ServiceTableForProfile(config, all_periods, cost_data, config.profiles[j], o)
                = report.profile_tables[j]}

TotalOrders(cd) ==
    {o \in Orderings(AllServicesAcrossProfiles(config, cd)) :
        report # NoReport =>
            ServiceTotalTable(config, all_periods, cd, o) = report.service_total}

HtmlRaises ==
    \/ \E j \in 1..Len(config.profiles) :
          ServiceTableHtmlRaises(config, all_periods, cost_data, config.profiles[j])
    \/ ServiceTotalTableHtmlRaises(config, all_periods, cost_data)

\* generate_reports: the HTML report follows the markdown report if both are
\* configured
HtmlTurn ==
    \/ pc = "report" /\ config.report_format = "html"
    \/ pc = "html" /\ config.report_format = "both"

\* the document is built and written
GenerateCombinedReportHtml ==
    /\ HtmlTurn
    /\ ~HtmlRaises
    /\ LET n == Len(config.profiles)
           ProfileTables(j) ==
               {ServiceTableHtml(config, all_periods, cost_data, config.profiles[j], o) :
                   o \in ProfileOrders(j)}
           cd == IF all_periods = <<>> THEN cost_data ELSE TouchAll(cost_data, config.profiles)
           ServiceTotals ==
               {ServiceTotalTableHtml(config, all_periods, cd, o) : o \in TotalOrders(cd)}
       IN  /\ \E pt \in [1..n -> UNION {ProfileTables(j) : j \in 1..n}] :
              \E st \in ServiceTotals :
                 /\ \A j \in 1..n : pt[j] \in ProfileTables(j)
                 /\ html_report' =
                       [profile_tables |-> pt,
                        profile_charts |->
                            [j \in 1..n |-> ProfileServiceCharts(config, all_periods, cd,
                                                                 config.profiles[j])],
                        account_total |-> AccountTotalTableHtml(config, all_periods, cd),
                        account_charts |-> AccountTotalCharts(config, all_periods, cd),
                        service_total |-> st,
                        service_charts |-> ServiceTotalCharts(config, all_periods, cd)]
           /\ cost_data' = cd
    /\ pc' = "done"
    /\ UNCHANGED <<toolVars, config, all_periods, fetched, idx, report, fetch_log,
                   colorVars, findingsVars>>

\* a "Taxes" row is reached: AttributeError, no document is written.  The
\* profiles before the one whose table raises have been read, and that one too
\* if a row precedes its "Taxes" row
GenerateCombinedReportHtmlRaises ==
    /\ HtmlTurn
    /\ HtmlRaises
    /\ LET Raising(j) ==
               ServiceTableHtmlRaises(config, all_periods, cost_data, config.profiles[j])
           first == IF \E j \in 1..Len(config.profiles) : Raising(j)
                    THEN CHOOSE j \in 1..Len(config.profiles) :
                            Raising(j) /\ \A i \in 1..(j - 1) : ~Raising(i)
                    ELSE Len(config.profiles) + 1
           before == TouchAll(cost_data, SubSeq(config.profiles, 1, first - 1))
       IN  IF first > Len(config.profiles) THEN cost_data' = before
           ELSE \E o \in ProfileOrders(first) :
                   LET sorted_services ==
                           SortServicesByConfig(config, all_periods, cost_data,
                                                FilteredServices(config, o),
                                                config.profiles[first])
                   IN  cost_data' = IF sorted_services[1] = S_Taxes THEN before
                                    ELSE Touch(before, config.profiles[first])
    /\ pc' = "crashed"
    /\ UNCHANGED <<toolVars, config, all_periods, fetched, idx, report, html_report, fetch_log,
                   colorVars, findingsVars>>

NextRun ==
    \/ LoadConfig
    \/ Construct
    \/ GetCostData
    \/ GetCostDataFails
    \/ GetCostDataRaises
    \/ GenerateCombinedReport
    \/ GenerateCombinedReportHtml
    \/ GenerateCombinedReportHtmlRaises

SpecRun == InitRun /\ [][NextRun]_vars

(***************************************************************************)
(* _generate_chart_colors alone, over a range of entity counts.            *)
(***************************************************************************)
\* the largest entity count tried
MaxCount == 65

InitColors ==
    /\ count \in 0..MaxCount
    /\ colors = <<>>
    /\ pc = "call"
    /\ config = Config(<<>>, "name", MonthlyWindow, FALSE, FALSE)
    /\ all_periods = <<>>
    /\ cost_data = EmptyDict
    /\ fetched = EmptyBag
    /\ idx = 1
    /\ report = NoReport
    /\ html_report = NoHtml
    /\ fetch_log = <<>>
    /\ FindingsIdle
    /\ ToolsIdle

\* colors = self._generate_chart_colors(count)
GenerateColors ==
    /\ pc = "call"
    /\ colors' = GenerateChartColors(count)
    /\ pc' = "returned"
    /\ UNCHANGED <<toolVars, config, all_periods, cost_data, fetched, idx, report, html_report,
                   fetch_log, count, findingsVars>>

NextColors == GenerateColors

SpecColors == InitColors /\ [][NextColors]_vars

(***************************************************************************)
(* securityhub/securityhub_dashboard.py  (class SecurityHubDashboard).     *)
(* findings_data[profile][region][severity]["count"] is kept as a          *)
(* dictionary from <<profile, region, severity>> to the count; a key that  *)
(* was never written reads as 0, as in the defaultdict.  The run reuses    *)
(* config, pc, idx and fetch_log.  The table of the detailed findings is   *)
(* not part of the dashboard record.                                       *)
(***************************************************************************)
severity_order == <<"CRITICAL", "HIGH", "MEDIUM", "LOW">>

S_euwest1 == <<101, 117, 45, 119, 101, 115, 116, 45, 49>>
S_useast1 == <<117, 115, 45, 101, 97, 115, 116, 45, 49>>
\* "f1" and "x/f1"
S_xf1 == <<120, 47, 102, 49>>

\* colors.values() of _generate_chart_colors
SeverityColors ==
    <<<<35, 68, 67, 51, 53, 52, 53>>,
      <<35, 70, 68, 55, 69, 49, 52>>,
      <<35, 70, 70, 67, 49, 48, 55>>,
      <<35, 50, 48, 67, 57, 57, 55>>,
      <<35, 54, 67, 55, 53, 55, 68>>>>

additional_colors ==
    <<<<35, 70, 70, 54, 51, 56, 52>>,
      <<35, 51, 54, 65, 50, 69, 66>>,
      <<35, 70, 70, 67, 69, 53, 54>>,
      <<35, 52, 66, 67, 48, 67, 48>>,
      <<35, 57, 57, 54, 54, 70, 70>>,
      <<35, 70, 70, 57, 70, 52, 48>>,
      <<35, 70, 70, 54, 66, 54, 66>>,
      <<35, 52, 69, 67, 68, 67, 52>>,
      <<35, 52, 53, 66, 55, 68, 49>>,
      <<35, 57, 54, 67, 69, 66, 52>>>>

\* list[:k]
Take(list, k) == SubSeq(list, 1, IF k > Len(list) THEN Len(list) ELSE k)

\* list(colors.values()) + additional_colors[: max(0, count - len(colors))]
DashboardChartColors(n) ==
    SeverityColors
        \o Take(additional_colors,
                IF n - Len(SeverityColors) > 0 THEN n - Len(SeverityColors) ELSE 0)

\* self.findings_data[profile][region][severity]["count"]
FindingCount(fd, profile, region, severity) == Get(fd, <<profile, region, severity>>, 0)

\* the value standing for a key that the finding does not hold
NoRegion == <<-1>>
NoId == <<-1>>

\* the last "/"-separated part of a string: s.split("/")[-1]
RECURSIVE LastSegment(_)
LastSegment(s) ==
    IF \A i \in 1..Len(s) : s[i] # 47 THEN s
    ELSE LastSegment(Tail(s))

\* the state _process_findings_data works on, the findings it has gone
\* through, and whether it raised
FindingsState(fd, rg, df, processed, raised) ==
    [findings_data |-> fd, regions |-> rg, detailed_findings |-> df,
     processed |-> processed, raised |-> raised]

\* _process_findings_data from finding i on: the state it leaves, and whether
\* it raised (finding["Region"] of a finding without Region, or .split of the
\* None that finding.get("Id") returns)
RECURSIVE ProcessFindingsData(_, _, _, _)
ProcessFindingsData(st, findings, profile, i) ==
    IF i > Len(findings) THEN st
    ELSE LET finding == findings[i]
             severity == finding.Severity
             region == finding.Region
             fd == st.findings_data
             seen == Append(st.processed, finding)
         IN  IF severity = "INFORMATIONAL"
             THEN ProcessFindingsData([st EXCEPT !.processed = seen], findings, profile, i + 1)
             ELSE IF region = NoRegion
             THEN [st EXCEPT !.raised = TRUE]
             ELSE IF finding.Id = NoId
             THEN [st EXCEPT !.regions = @ \cup {region}, !.raised = TRUE]
             ELSE ProcessFindingsData(
                      FindingsState(
                          Put(fd, <<profile, region, severity>>,
                              FindingCount(fd, profile, region, severity) + 1),
                          st.regions \cup {region},
                          Append(st.detailed_findings,
                                 [account |-> profile, region |-> region,
                                  severity |-> severity, id |-> LastSegment(finding.Id)]),
                          seen, FALSE),
                      findings, profile, i + 1)

\* for page in page_iterator: self._process_findings_data(findings, profile)
RECURSIVE ProcessPages(_, _, _, _)
ProcessPages(st, pages, profile, p) ==
    IF p > Len(pages) THEN st
    ELSE LET after == ProcessFindingsData(st, pages[p], profile, 1)
         IN  IF after.raised THEN after ELSE ProcessPages(after, pages, profile, p + 1)

\* the findings a fetch has gone through, as history records
RECURSIVE FindingRecords(_, _)
FindingRecords(profile, processed) ==
    IF processed = <<>> THEN EmptyBag
    ELSE SetToBag({[profile |-> profile, severity |-> Head(processed).Severity,
                    region |-> Head(processed).Region]})
         (+) FindingRecords(profile, Tail(processed))

\* a sum that reads one region only
RegionSumFirst(fd, rg, profile, severity) ==
    IF rg = {} THEN 0
    ELSE FindingCount(fd, profile, CHOOSE r \in rg : TRUE, severity)

\* the sum of a count over a set of regions
RECURSIVE RegionSum(_, _, _, _)
RegionSum(fd, rg, profile, severity) ==
    IF rg = {} THEN 0
    ELSE LET region == CHOOSE r \in rg : TRUE
         IN  FindingCount(fd, profile, region, severity)
                 + RegionSum(fd, rg \ {region}, profile, severity)

\* a row of a findings table: str(count) in every cell
FindingsRow(label, counts) ==
    [label |-> label,
     cells |-> [k \in 1..Len(counts) |-> Digits(counts[k])],
     total |-> Digits(SumSeq(counts))]

\* the Total row: the sums of the columns, and their sum
FindingsTotalRow(count_rows) ==
    FindingsRow(S_Total,
                [k \in 1..Len(severity_order) |->
                    SumSeq([i \in 1..Len(count_rows) |-> count_rows[i][k]])])

\* _generate_account_findings_table
AccountFindingsTable(fd, rg, profile) ==
    LET profile_regions == Sorted(CHOOSE o \in Orderings(rg) : TRUE)
        count_rows == [i \in 1..Len(profile_regions) |->
                          [k \in 1..Len(severity_order) |->
                              FindingCount(fd, profile, profile_regions[i], severity_order[k])]]
    IN  [i \in 1..Len(profile_regions) |-> FindingsRow(profile_regions[i], count_rows[i])]
            \o <<FindingsTotalRow(count_rows)>>

\* the counts of an account per severity, over the regions
SeverityData(fd, rg, profile) ==
    [k \in 1..Len(severity_order) |-> RegionSum(fd, rg, profile, severity_order[k])]

\* _generate_global_summary_table
GlobalSummaryTable(cfg, fd, rg) ==
    LET count_rows == [i \in 1..Len(cfg.profiles) |-> SeverityData(fd, rg, cfg.profiles[i])]
    IN  [i \in 1..Len(cfg.profiles) |-> FindingsRow(cfg.profiles[i], count_rows[i])]
            \o <<FindingsTotalRow(count_rows)>>

\* the positions of a list of totals that are > 0
PositivePositions(totals) ==
    LET Positive(i) == totals[i] > 0
    IN  SelectSeq([i \in 1..Len(totals) |-> i], Positive)

\* the charts of a dashboard section: the stacked chart is emitted if it has
\* a series, the pie if it has a label
FindingsCharts(datasets, pie) ==
    [rendered |-> datasets # <<>>, datasets |-> datasets, pie |-> pie]

\* _generate_account_charts
AccountCharts(fd, rg, profile) ==
    LET region_labels == Sorted(CHOOSE o \in Orderings(rg) : TRUE)
        severity_colors == DashboardChartColors(Len(severity_order))
        region_data == [i \in 1..Len(severity_order) |->
                           [k \in 1..Len(region_labels) |->
                               FindingCount(fd, profile, region_labels[k], severity_order[i])]]
        totals == [i \in 1..Len(severity_order) |-> SumSeq(region_data[i])]
        kept == PositivePositions(totals)
    IN  FindingsCharts([k \in 1..Len(kept) |->
                           Dataset(severity_order[kept[k]], region_data[kept[k]],
                                   severity_colors[kept[k]])],
                       PieChart(severity_order, totals, severity_colors))

\* _generate_global_charts reads colors[i] for an account with findings:
\* IndexError if the list is shorter
GlobalChartsRaises(cfg, fd, rg) ==
    \E i \in 1..Len(cfg.profiles) :
        /\ SumSeq(SeverityData(fd, rg, cfg.profiles[i])) > 0
        /\ i > Len(DashboardChartColors(Len(cfg.profiles)))

\* _generate_global_charts
GlobalCharts(cfg, fd, rg) ==
    LET account_names == cfg.profiles
        chart_colors == DashboardChartColors(Len(account_names))
        severity_data == [i \in 1..Len(account_names) |->
                             SeverityData(fd, rg, account_names[i])]
        totals == [i \in 1..Len(account_names) |-> SumSeq(severity_data[i])]
        kept == PositivePositions(totals)
    IN  FindingsCharts([k \in 1..Len(kept) |->
                           Dataset(account_names[kept[k]], severity_data[kept[k]],
                                   chart_colors[kept[k]])],
                       PieChart(account_names, totals, chart_colors))

(***************************************************************************)
(* The responses of get_findings and the run of generate_dashboard.        *)
(***************************************************************************)
\* the most findings processed in a run over many accounts and over few, the
\* most pages of a response, the most fetches that fail in a run, and the
\* longer list of accounts
MaxFindings == 2
MaxFindingsFew == 3
MaxPages == 2
MaxFailures == 1
ManyAccounts == 16

\* the labels of the findings drawn for the configurations of many accounts,
\* and for the others
SeverityLabels(cfg) ==
    IF Len(cfg.profiles) > 3 THEN {"CRITICAL"}
    ELSE {"CRITICAL", "HIGH", "LOW", "INFORMATIONAL"}

FindingSet(cfg) ==
    [Severity : SeverityLabels(cfg), Region : {S_euwest1, S_useast1}, Id : {S_xf1}]

\* a finding without Region, and one without Id
BadFindings ==
    {[Severity |-> "CRITICAL", Region |-> NoRegion, Id |-> S_xf1],
     [Severity |-> "CRITICAL", Region |-> S_euwest1, Id |-> NoId]}

TotalFindings(pages) == SumSeq([p \in 1..Len(pages) |-> Len(pages[p])])

\* the findings a run may still go through
Budget(cfg, history) ==
    (IF Len(cfg.profiles) > 3 THEN MaxFindings ELSE MaxFindingsFew)
        - BagCardinality(history)

\* up to m findings
UpTo(findings, m) == UNION {[1..k -> findings] : k \in 0..m}

\* the responses of up to MaxPages pages and n findings, drawn from a set
PagesOf(findings, n) ==
    LET PageSet == UpTo(findings, n)
    IN  {pages \in UNION {[1..k -> PageSet] : k \in 0..MaxPages} : TotalFindings(pages) <= n}

\* the well-formed findings next to a malformed one: they are counted
FindingsAround == {finding \in FindingSet(config) : finding.Severity = "CRITICAL"}

\* the responses with a malformed finding on their last page, after at most
\* one page, and with at most n well-formed findings around it
MalformedPages(n) ==
    {r \in {prefix \o <<before \o <<bad>> \o after>> :
               prefix \in {<<>>} \cup {<<page>> : page \in UpTo(FindingsAround, 1)},
               before \in UpTo(FindingsAround, 1),
               bad \in BadFindings,
               after \in UpTo(FindingsAround, 1)} :
        TotalFindings(r) - 1 <= n}

\* "acctNN"
AccountName(i) == <<97, 99, 99, 116, Digit(i \div 10), Digit(i % 10)>>

DashboardConfig(n) ==
    [report_name |-> S_report_name, home_region |-> S_euwest1,
     profiles |-> [i \in 1..n |-> AccountName(i)]]

DashboardConfigs == {DashboardConfig(2), DashboardConfig(ManyAccounts)}

InitDashboard ==
    /\ config \in DashboardConfigs
    /\ all_periods = <<>>
    /\ cost_data = EmptyDict
    /\ fetched = EmptyBag
    /\ pc = "fetch"
    /\ idx = 1
    /\ report = NoReport
    /\ html_report = NoHtml
    /\ fetch_log = <<>>
    /\ ColorsIdle
    /\ FindingsIdle
    /\ ToolsIdle

\* the fetches of the run that failed
Failures == Len(SelectSeq(fetch_log, LAMBDA e : e.outcome = "failed"))

\* _get_findings_data(profile): every page is processed
GetFindingsData ==
    /\ pc = "fetch"
    /\ \E pages \in PagesOf(FindingSet(config), Budget(config, fetched)) :
          LET after == ProcessPages(FindingsState(findings_data, regions, detailed_findings,
                                                  <<>>, FALSE),
                                    pages, config.profiles[idx], 1)
          IN  /\ findings_data' = after.findings_data
              /\ regions' = after.regions
              /\ detailed_findings' = after.detailed_findings
              /\ fetched' = fetched (+) FindingRecords(config.profiles[idx], after.processed)
    /\ AfterFetch("ok")
    /\ UNCHANGED <<toolVars, config, all_periods, cost_data, report, html_report,
                   colorVars, dashboard>>

\* _get_findings_data(profile): no client
GetFindingsDataNoClient ==
    /\ pc = "fetch"
    /\ Failures < MaxFailures
    /\ AfterFetch("failed")
    /\ UNCHANGED <<toolVars, config, all_periods, cost_data, fetched, report, html_report,
                   colorVars, findingsVars>>

\* _get_findings_data(profile): ClientError or NoCredentialsError from the
\* paginator, after the pages it had yielded were processed
GetFindingsDataClientError ==
    /\ pc = "fetch"
    /\ Failures < MaxFailures
    /\ \E pages \in PagesOf(FindingSet(config), Budget(config, fetched)) :
          LET after == ProcessPages(FindingsState(findings_data, regions, detailed_findings,
                                                  <<>>, FALSE),
                                    pages, config.profiles[idx], 1)
          IN  /\ findings_data' = after.findings_data
              /\ regions' = after.regions
              /\ detailed_findings' = after.detailed_findings
              /\ fetched' = fetched (+) FindingRecords(config.profiles[idx], after.processed)
    /\ AfterFetch("failed")
    /\ UNCHANGED <<toolVars, config, all_periods, cost_data, report, html_report,
                   colorVars, dashboard>>

\* _get_findings_data(profile): a page holds a malformed finding
GetFindingsDataRaises ==
    /\ pc = "fetch"
    /\ \E pages \in MalformedPages(Budget(config, fetched)) :
          LET after == ProcessPages(FindingsState(findings_data, regions, detailed_findings,
                                                  <<>>, FALSE),
                                    pages, config.profiles[idx], 1)
          IN  /\ after.raised
              /\ findings_data' = after.findings_data
              /\ regions' = after.regions
              /\ detailed_findings' = after.detailed_findings
              /\ fetched' = fetched (+) FindingRecords(config.profiles[idx], after.processed)
    /\ pc' = "crashed"
    /\ fetch_log' = Append(fetch_log, [profile |-> config.profiles[idx], outcome |-> "raised"])
    /\ UNCHANGED <<toolVars, config, all_periods, cost_data, idx, report, html_report,
                   colorVars, dashboard>>

\* _generate_html_dashboard
GenerateHtmlDashboard ==
    /\ pc = "report"
    /\ ~GlobalChartsRaises(config, findings_data, regions)
    /\ dashboard' =
          [account_tables |-> [j \in 1..Len(config.profiles) |->
                                  AccountFindingsTable(findings_data, regions, config.profiles[j])],
           account_charts |-> [j \in 1..Len(config.profiles) |->
                                  AccountCharts(findings_data, regions, config.profiles[j])],
           global_summary |-> GlobalSummaryTable(config, findings_data, regions),
           global_charts |-> GlobalCharts(config, findings_data, regions)]
    /\ pc' = "done"
    /\ UNCHANGED <<toolVars, config, all_periods, cost_data, fetched, idx, report, html_report,
                   fetch_log, colorVars, findings_data, regions, detailed_findings>>

\* _generate_html_dashboard: the IndexError of _generate_global_charts
GenerateHtmlDashboardRaises ==
    /\ pc = "report"
    /\ GlobalChartsRaises(config, findings_data, regions)
    /\ pc' = "crashed"
    /\ UNCHANGED <<toolVars, config, all_periods, cost_data, fetched, idx, report, html_report,
                   fetch_log, colorVars, findingsVars>>

NextDashboard ==
    \/ GetFindingsData
    \/ GetFindingsDataNoClient
    \/ GetFindingsDataClientError
    \/ GetFindingsDataRaises
    \/ GenerateHtmlDashboard
    \/ GenerateHtmlDashboardRaises

SpecDashboard == InitDashboard /\ [][NextDashboard]_vars

(***************************************************************************)
(* securityhub-cleaner/securityhub_cleaner.py  (class SecurityHubCleaner). *)
(* A finding is [Id, ProductArn]; the Id is a number standing for the      *)
(* identifier string, and 0 stands for a field that is absent or empty.    *)
(* The run reuses config, pc and idx.                                      *)
(***************************************************************************)
\* batch_size = 100
batch_size == 100

Min(a, b) == IF a < b THEN a ELSE b

\* the identifiers of the findings that have both an Id and a ProductArn
FindingIdentifiers(findings) ==
    LET Valid(finding) == finding.Id # 0 /\ finding.ProductArn # 0
    IN  SelectSeq(findings, Valid)

\* a call of batch_update_findings
UpdateCall(batch, new_status) ==
    [FindingIdentifiers |-> batch, Workflow |-> [Status |-> new_status]]

\* what _update_findings_workflow did: the calls it made, what they did, and
\* what it returned ("true", "false") or that an exception left it ("raised")
Workflow(calls, responses, outcome) ==
    [calls |-> calls, responses |-> SubSeq(responses, 1, Len(calls)), outcome |-> outcome]

\* a loop whose batches overlap by one identifier
RECURSIVE BatchLoopOverlapping(_, _, _, _, _, _)
BatchLoopOverlapping(finding_identifiers, new_status, responses, i, calls, total_failed) ==
    IF i >= Len(finding_identifiers) \/ Len(calls) >= Len(responses)
    THEN Workflow(calls, responses, IF total_failed = 0 THEN "true" ELSE "false")
    ELSE LET batch == SubSeq(finding_identifiers, i + 1,
                             Min(i + batch_size, Len(finding_identifiers)))
             response == responses[Len(calls) + 1]
             sent == Append(calls, UpdateCall(batch, new_status))
         IN  IF response.t = "client_error" THEN Workflow(sent, responses, "false")
             ELSE IF response.t = "raises" THEN Workflow(sent, responses, "raised")
             ELSE BatchLoopOverlapping(finding_identifiers, new_status, responses,
                                       i + batch_size - 1, sent,
                                       total_failed + response.unprocessed)

\* for i in range(0, len(finding_identifiers), batch_size), from offset i on;
\* responses[k] is what the k-th call of batch_update_findings does
RECURSIVE BatchLoop(_, _, _, _, _, _)
BatchLoop(finding_identifiers, new_status, responses, i, calls, total_failed) ==
    IF i >= Len(finding_identifiers)
    THEN Workflow(calls, responses, IF total_failed = 0 THEN "true" ELSE "false")
    ELSE LET batch == SubSeq(finding_identifiers, i + 1,
                             Min(i + batch_size, Len(finding_identifiers)))
             batch_num == (i \div batch_size) + 1
             response == responses[batch_num]
             sent == Append(calls, UpdateCall(batch, new_status))
         IN  IF response.t = "client_error" THEN Workflow(sent, responses, "false")
             ELSE IF response.t = "raises" THEN Workflow(sent, responses, "raised")
             ELSE BatchLoop(finding_identifiers, new_status, responses, i + batch_size,
                            sent, total_failed + response.unprocessed)

\* a workflow that does not look at dry_run
UpdateFindingsWorkflowLive(dry, finding_identifiers, new_status, responses) ==
    BatchLoop(finding_identifiers, new_status, responses, 0, <<>>, 0)

\* a workflow that reports success whenever no exception stopped it
UpdateFindingsWorkflowAlwaysTrue(dry, finding_identifiers, new_status, responses) ==
    LET done == BatchLoop(finding_identifiers, new_status, responses, 0, <<>>, 0)
    IN  IF dry THEN Workflow(<<>>, responses, "true")
        ELSE [done EXCEPT !.outcome = IF @ = "false" THEN "true" ELSE @]

\* _update_findings_workflow
UpdateFindingsWorkflow(dry, finding_identifiers, new_status, responses) ==
    IF finding_identifiers = <<>> THEN Workflow(<<>>, responses, "true")
    ELSE IF dry THEN Workflow(<<>>, responses, "true")
    ELSE BatchLoop(finding_identifiers, new_status, responses, 0, <<>>, 0)

\* the position after a search: the next search of the profile, or the first
\* search of the next profile
AfterSearch ==
    IF search < Len(config.findings_search_parameters)
    THEN idx' = idx /\ search' = search + 1 /\ pc' = "clean"
    ELSE /\ idx' = idx + 1
         /\ search' = 1
         /\ pc' = IF idx < Len(config.profiles) THEN "clean" ELSE "done"

\* except Exception in run_cleanup: continue with the next profile
AfterException ==
    /\ idx' = idx + 1
    /\ search' = 1
    /\ pc' = IF idx < Len(config.profiles) THEN "clean" ELSE "done"

(***************************************************************************)
(* The responses of get_findings and batch_update_findings, and the run of *)
(* run_cleanup.                                                            *)
(***************************************************************************)
\* the most findings processed in a run
MaxProcessed == 302

\* n findings with the Ids 1..n, those at the positions of bad without ProductArn
FindingsOf(n, bad) ==
    [k \in 1..n |-> [Id |-> k, ProductArn |-> IF k \in bad THEN 0 ELSE 1]]

\* the lists get_findings returns: none, one, a full batch, one more, two full
\* batches, one more; all valid, the first without ProductArn, or none valid
FindingLists(budget) ==
    LET counts == {n \in {0, 1, batch_size, batch_size + 1, 2 * batch_size,
                          2 * batch_size + 1} : n <= budget}
    IN  UNION {{FindingsOf(n, {}), FindingsOf(n, 1..Min(n, 1)), FindingsOf(n, 1..n)} :
                   n \in counts}

\* what a call of batch_update_findings does: a response with a number of
\* UnprocessedFindings, a ClientError, or another exception
Responses ==
    {[t |-> "response", unprocessed |-> 0], [t |-> "response", unprocessed |-> 1],
     [t |-> "client_error", unprocessed |-> 0], [t |-> "raises", unprocessed |-> 0]}

\* the calls a list of identifiers needs
Batches(finding_identifiers) == (Len(finding_identifiers) + batch_size - 1) \div batch_size

CleanerConfig(profiles, searches) ==
    [profiles |-> profiles, findings_search_parameters |-> searches,
     new_workflow_status |-> "RESOLVED", home_region |-> S_euwest1]

CleanerConfigs ==
    {CleanerConfig(profiles, searches) :
        profiles \in {<<S_prod>>, <<S_prod, S_dev>>},
        searches \in {<<[severity |-> "LOW"]>>,
                      <<[severity |-> "LOW"], [severity |-> "HIGH"]>>}}

InitCleaner ==
    /\ config \in CleanerConfigs
    /\ dry_run \in BOOLEAN
    /\ total_processed = 0
    /\ total_updated = 0
    /\ search = 1
    /\ last_search = NoSearch
    /\ pc = "clean"
    /\ idx = 1
    /\ all_periods = <<>>
    /\ cost_data = EmptyDict
    /\ fetched = EmptyBag
    /\ report = NoReport
    /\ html_report = NoHtml
    /\ fetch_log = <<>>
    /\ ColorsIdle
    /\ FindingsIdle
    /\ CrawlerIdle

cleanerFrame == <<config, dry_run, all_periods, cost_data, fetched, report, html_report,
                  fetch_log, colorVars, findingsVars, crawlerVars>>

\* _process_search_params: _get_securityhub_client returned None
ProcessSearchParamsNoClient ==
    /\ pc = "clean"
    /\ last_search' = NoSearch
    /\ AfterSearch
    /\ UNCHANGED <<total_processed, total_updated, cleanerFrame>>

\* _process_search_params: get_findings returned a list (the empty list also
\* after a ClientError) and no call raised anything but ClientError; without a
\* valid identifier it returns before _update_findings_workflow
ProcessSearchParams ==
    /\ pc = "clean"
    /\ \E findings \in FindingLists(MaxProcessed - total_processed) :
         LET finding_identifiers == FindingIdentifiers(findings)
         IN  \E responses \in [1..Batches(finding_identifiers) -> Responses] :
               LET done == IF finding_identifiers = <<>>
                           THEN Workflow(<<>>, <<>>, "skipped")
                           ELSE UpdateFindingsWorkflow(dry_run, finding_identifiers,
                                                       config.new_workflow_status, responses)
               IN  /\ done.outcome # "raised"
                   /\ total_processed' = total_processed + Len(findings)
                   /\ total_updated' =
                         IF done.outcome = "true"
                         THEN total_updated + Len(finding_identifiers)
                         ELSE total_updated
                   /\ last_search' = [found |-> Len(findings),
                                      identifiers |-> finding_identifiers,
                                      calls |-> done.calls, responses |-> done.responses,
                                      outcome |-> done.outcome]
    /\ AfterSearch
    /\ UNCHANGED cleanerFrame

\* _process_search_params: the paginator of get_findings raised an exception
\* that is no ClientError; run_cleanup goes on with the next profile
ProcessSearchParamsFetchRaises ==
    /\ pc = "clean"
    /\ last_search' = [NoSearch EXCEPT !.outcome = "raised"]
    /\ AfterException
    /\ UNCHANGED <<total_processed, total_updated, cleanerFrame>>

\* _process_search_params: a call of batch_update_findings raised an exception
\* that is no ClientError; run_cleanup goes on with the next profile
ProcessSearchParamsUpdateRaises ==
    /\ pc = "clean"
    /\ \E findings \in FindingLists(MaxProcessed - total_processed) :
         LET finding_identifiers == FindingIdentifiers(findings)
         IN  \E responses \in [1..Batches(finding_identifiers) -> Responses] :
               LET done == UpdateFindingsWorkflow(dry_run, finding_identifiers,
                                                  config.new_workflow_status, responses)
               IN  /\ done.outcome = "raised"
                   /\ total_processed' = total_processed + Len(findings)
                   /\ last_search' = [found |-> Len(findings),
                                      identifiers |-> finding_identifiers,
                                      calls |-> done.calls, responses |-> done.responses,
                                      outcome |-> done.outcome]
    /\ AfterException
    /\ UNCHANGED <<total_updated, cleanerFrame>>

NextCleaner ==
    \/ ProcessSearchParamsNoClient
    \/ ProcessSearchParams
    \/ ProcessSearchParamsFetchRaises
    \/ ProcessSearchParamsUpdateRaises

SpecCleaner == InitCleaner /\ [][NextCleaner]_vars

(***************************************************************************)
(* _update_findings_workflow alone, over a range of identifier lists.      *)
(***************************************************************************)
\* the lists of identifiers tried, the empty list and three full batches
\* among them
IdentifierLists ==
    {FindingIdentifiers(findings) : findings \in FindingLists(MaxProcessed)}
        \cup {FindingIdentifiers(FindingsOf(3 * batch_size, {}))}

InitWorkflow ==
    /\ dry_run \in BOOLEAN
    /\ \E finding_identifiers \in IdentifierLists :
          last_search = [NoSearch EXCEPT !.found = Len(finding_identifiers),
                                         !.identifiers = finding_identifiers]
    /\ pc = "call"
    /\ config = CleanerConfig(<<S_prod>>, <<[severity |-> "LOW"]>>)
    /\ total_processed = 0
    /\ total_updated = 0
    /\ search = 1
    /\ idx = 1
    /\ all_periods = <<>>
    /\ cost_data = EmptyDict
    /\ fetched = EmptyBag
    /\ report = NoReport
    /\ html_report = NoHtml
    /\ fetch_log = <<>>
    /\ ColorsIdle
    /\ FindingsIdle
    /\ CrawlerIdle

\* success = self._update_findings_workflow(client, finding_identifiers, new_status)
CallUpdateFindingsWorkflow ==
    /\ pc = "call"
    /\ \E responses \in [1..Batches(last_search.identifiers) -> Responses] :
         LET done == UpdateFindingsWorkflow(dry_run, last_search.identifiers,
                                            config.new_workflow_status, responses)
         IN  /\ last_search' = [last_search EXCEPT !.calls = done.calls,
                                                   !.responses = done.responses,
                                                   !.outcome = done.outcome]
             /\ pc' = IF done.outcome = "raised" THEN "raised" ELSE "returned"
    /\ UNCHANGED <<total_processed, total_updated, search, idx, cleanerFrame>>

NextWorkflow == CallUpdateFindingsWorkflow

SpecWorkflow == InitWorkflow /\ [][NextWorkflow]_vars

(***************************************************************************)
(* organizations-operator-framework/step machine/src/securityhub-crawler/  *)
(* lambda_function.py.  An exception carries whether it is a               *)
(* botocore ClientError and whether its text holds "AccessDenied".         *)
(***************************************************************************)
S_acct12 == <<49, 50>>
S_acct99 == <<57, 57>>
\* "r/cis" and "s/pci", two StandardsArn
S_arn_cis == <<114, 47, 99, 105, 115>>
S_arn_pci == <<115, 47, 112, 99, 105>>
\* "[]"
S_no_standards == <<91, 93>>

NoException == [t |-> "none", client_error |-> FALSE, access_denied |-> FALSE]
Exceptions == [t : {"exception"}, client_error : BOOLEAN, access_denied : BOOLEAN]

\* s.split("/")[0]
RECURSIVE FirstSegment(_)
FirstSegment(s) ==
    IF s = <<>> \/ Head(s) = 47 THEN <<>> ELSE <<Head(s)>> \o FirstSegment(Tail(s))

\* s.replace(old, ""), old not empty
RECURSIVE Remove(_, _)
Remove(s, old) ==
    IF Len(s) < Len(old) THEN s
    ELSE IF StartsWith(s, old) THEN Remove(SubSeq(s, Len(old) + 1, Len(s)), old)
    ELSE <<Head(s)>> \o Remove(Tail(s), old)

\* standard_arn.replace(arn_part_1 + "/", "")
StandardName(standard_arn) == Remove(standard_arn, FirstSegment(standard_arn) \o <<47>>)

\* the controls of a subscription whose ControlStatus is ENABLED
NbEnabledControls(controls) ==
    LET Enabled(status) == status = "ENABLED"
    IN  Len(SelectSeq(controls, Enabled))

\* standards.sort(key=lambda x: x["name"]): stable, by name
RECURSIVE InsertStandard(_, _)
InsertStandard(standard, sorted) ==
    IF sorted = <<>> THEN <<standard>>
    ELSE IF StrLess(standard.name, Head(sorted).name)
    THEN <<standard>> \o sorted
    ELSE <<Head(sorted)>> \o InsertStandard(standard, Tail(sorted))

RECURSIVE SortStandards(_)
SortStandards(standards) ==
    IF standards = <<>> THEN <<>>
    ELSE InsertStandard(standards[Len(standards)],
                        SortStandards(SubSeq(standards, 1, Len(standards) - 1)))

\* json.dumps of the list of standards
RECURSIVE JsonItems(_)
JsonItems(standards) ==
    IF standards = <<>> THEN <<>>
    ELSE <<123, 34, 110, 97, 109, 101, 34, 58, 32, 34>> \o Head(standards).name
         \o <<34, 44, 32, 34, 110, 98, 69, 110, 97, 98, 108, 101, 100, 67, 111, 110, 116,
              114, 111, 108, 115, 34, 58, 32>>
         \o Digits(Head(standards).nbEnabledControls) \o <<125>>
         \o (IF Tail(standards) = <<>> THEN <<>> ELSE <<44, 32>>)
         \o JsonItems(Tail(standards))

JsonDumps(standards) == <<91>> \o JsonItems(standards) \o <<93>>

\* a call of AWS and the exception it raised, or none
ApiCall(name, raised) == [call |-> name, raised |-> raised]

\* the state of lambda_handler's result dictionary, the exception that left
\* the code (or none), and the calls made
Crawl(value, raised, calls) == [value |-> value, raised |-> raised, calls |-> calls]

\* the loop over the subscriptions of get_enabled_standards, from i on
RECURSIVE StandardsLoop(_, _, _, _)
StandardsLoop(subscriptions, i, standards, calls) ==
    IF i > Len(subscriptions) THEN [standards |-> standards, raised |-> NoException,
                                    calls |-> calls]
    ELSE LET subscription == subscriptions[i]
             called == Append(calls, ApiCall("describe_standards_controls", subscription.fails))
         IN  IF subscription.fails.t = "exception"
             THEN [standards |-> standards, raised |-> subscription.fails, calls |-> called]
             ELSE StandardsLoop(subscriptions, i + 1,
                      Append(standards,
                             [name |-> StandardName(subscription.StandardsArn),
                              nbEnabledControls |-> NbEnabledControls(subscription.Controls)]),
                      called)

\* ## MASTER
MasterPart(value, env, calls) ==
    LET master == env.get_master_account
        called == Append(calls, ApiCall("get_master_account", master.fails))
    IN  IF master.fails.t = "exception" THEN Crawl(value, master.fails, called)
        ELSE IF master.Master /\ master.MemberStatus = "Enabled"
        THEN Crawl([value EXCEPT !.masterAccountId = master.AccountId], NoException, called)
        ELSE Crawl(value, NoException, called)

\* fetch_security_hub_configuration(securityhub, result); result is the
\* dictionary of the caller, changed in place
FetchSecurityHubConfiguration(value, env) ==
    LET hub == env.describe_hub
        calls == <<ApiCall("assume_role", NoException), ApiCall("describe_hub", hub.fails)>>
    IN  IF hub.fails.t = "exception" /\ hub.fails.client_error
        THEN Crawl([value EXCEPT !.status = "DISABLED"], NoException, calls)
        ELSE IF hub.fails.t = "exception" THEN Crawl(value, hub.fails, calls)
        ELSE IF ~hub.HubArn THEN MasterPart(value, env, calls)
        ELSE LET enabled == [value EXCEPT !.status = "ENABLED"]
                 listed == env.get_enabled_standards
                 paged == Append(calls, ApiCall("get_enabled_standards", listed.fails))
             IN  IF listed.fails.t = "exception" THEN Crawl(enabled, listed.fails, paged)
                 ELSE LET looped == StandardsLoop(listed.StandardsSubscriptions, 1, <<>>, paged)
                      IN  IF looped.raised.t = "exception"
                          THEN Crawl(enabled, looped.raised, looped.calls)
                          ELSE MasterPart(
                                   [enabled EXCEPT
                                       !.standards = JsonDumps(SortStandards(looped.standards))],
                                   env, looped.calls)

\* except Exception as e: ACCESS_DENIED if "AccessDenied" in str(e), else raise e
HandleException(crawl) ==
    IF crawl.raised.t = "none" THEN [crawl.value EXCEPT !.t = "returned"]
    ELSE IF crawl.raised.access_denied
    THEN [crawl.value EXCEPT !.t = "returned", !.status = "ACCESS_DENIED"]
    ELSE [NoResult EXCEPT !.t = "raised"]

\* lambda_handler(event, context): what it returns or that it raises, and the
\* calls it made
LambdaHandlerRun(ev, env) ==
    LET value == [t |-> "building", accountId |-> ev.accountId,
                  accountName |-> ev.accountName, accountStatus |-> ev.accountStatus,
                  region |-> ev.region, status |-> "DISABLED", masterAccountId |-> <<>>,
                  standards |-> S_no_standards]
        crawl == IF ev.accountStatus # "ACTIVE" THEN Crawl(value, NoException, <<>>)
                 ELSE IF env.assume_role.t = "exception"
                 THEN Crawl(value, env.assume_role,
                            <<ApiCall("assume_role", env.assume_role)>>)
                 ELSE FetchSecurityHubConfiguration(value, env)
    IN  [result |-> HandleException(crawl), calls |-> crawl.calls]

(***************************************************************************)
(* The events and the answers of AWS, and one call of the handler.         *)
(***************************************************************************)
Events ==
    [accountId : {S_acct12, S_acct99}, accountName : {S_prod}, region : {S_euwest1, S_useast1},
     accountStatus : {"ACTIVE", "SUSPENDED", "PENDING_CLOSURE"}]

CallOutcomes == {NoException} \cup Exceptions

Subscription(arn, controls, fails) ==
    [StandardsSubscriptionArn |-> <<115, 47>> \o arn, StandardsArn |-> arn,
     Controls |-> controls, fails |-> fails]

\* the subscriptions of an account: none, one, or two listed against the
\* order of their names; the controls of the first may fail to be listed
SubscriptionLists ==
    {<<>>}
    \cup {<<Subscription(S_arn_pci, controls, fails)>> :
             controls \in {<<>>, <<"ENABLED", "DISABLED", "ENABLED">>},
             fails \in {NoException, [t |-> "exception", client_error |-> TRUE,
                                      access_denied |-> TRUE]}}
    \cup {<<Subscription(S_arn_pci, <<"ENABLED">>, NoException),
            Subscription(S_arn_cis, <<"DISABLED">>, NoException)>>}

Environments ==
    [assume_role : CallOutcomes,
     describe_hub : [HubArn : BOOLEAN, fails : CallOutcomes],
     get_enabled_standards : [StandardsSubscriptions : SubscriptionLists,
                              fails : {NoException,
                                       [t |-> "exception", client_error |-> TRUE,
                                        access_denied |-> FALSE]}],
     get_master_account : [Master : BOOLEAN, MemberStatus : {"Enabled", "Associated"},
                           AccountId : {S_acct99}, fails : CallOutcomes]]

InitCrawler ==
    /\ event \in Events
    /\ result = NoResult
    /\ api_calls = <<>>
    /\ pc = "call"
    /\ config = CleanerConfig(<<>>, <<>>)
    /\ idx = 1
    /\ all_periods = <<>>
    /\ cost_data = EmptyDict
    /\ fetched = EmptyBag
    /\ report = NoReport
    /\ html_report = NoHtml
    /\ fetch_log = <<>>
    /\ ColorsIdle
    /\ FindingsIdle
    /\ CleanerIdle

\* one invocation of the Lambda function
LambdaHandler ==
    /\ pc = "call"
    /\ \E env \in Environments :
         LET run == LambdaHandlerRun(event, env)
         IN  /\ result' = run.result
             /\ api_calls' = run.calls
             /\ pc' = IF run.result.t = "raised" THEN "raised" ELSE "returned"
    /\ UNCHANGED <<event, config, idx, all_periods, cost_data, fetched, report,
                   html_report, fetch_log, colorVars, findingsVars, cleanerVars>>

NextCrawler == LambdaHandler

SpecCrawler == InitCrawler /\ [][NextCrawler]_vars

(***************************************************************************)
(* Properties of the Period Generator.                                     *)
(***************************************************************************)
\* days from 0001-01-01 to a date, by the calendar rules
DaysBeforeMonth(y, m) ==
    <<0, 31, 59, 90, 120, 151, 181, 212, 243, 273, 304, 334>>[m]
        + (IF m > 2 /\ ((y % 4 = 0 /\ y % 100 # 0) \/ y % 400 = 0) THEN 1 ELSE 0)

Ordinal(a) ==
    365 * (a.y - 1) + ((a.y - 1) \div 4) - ((a.y - 1) \div 100) + ((a.y - 1) \div 400)
        + DaysBeforeMonth(a.y, a.m) + a.d

MonthIndex(a) == 12 * a.y + a.m

Constructed == pc # "init"

\* C7: whenever start >= end the generated period list is empty, for daily and
\* for monthly granularity
C7_EmptyWhenStartNotBeforeEnd ==
    (Constructed /\ Ordinal(config.start_date) >= Ordinal(config.end_date))
        => all_periods = <<>>

\* C8: for start < end the period list is strictly increasing and covers
\* [start, end): daily, exactly the days start <= d < end one day apart; monthly,
\* exactly the months from the month of start to the last month whose first day
\* is before end, one month apart across the turn of the year
C8_PeriodsCoverWindow ==
    (Constructed /\ Ordinal(config.start_date) < Ordinal(config.end_date)) =>
        /\ \A i, j \in 1..Len(all_periods) : i < j => StrLess(all_periods[i], all_periods[j])
        /\ IF config.period = "daily"
           THEN /\ Len(all_periods) = Ordinal(config.end_date) - Ordinal(config.start_date)
                /\ \A i \in 1..Len(all_periods) :
                      /\ Len(all_periods[i]) = 10
                      /\ StrftimeYmd(StrptimeYmd(all_periods[i])) = all_periods[i]
                      /\ Ordinal(StrptimeYmd(all_periods[i]))
                            = Ordinal(config.start_date) + i - 1
           ELSE LET last == IF config.end_date.d > 1 THEN MonthIndex(config.end_date)
                            ELSE MonthIndex(config.end_date) - 1
                IN  /\ Len(all_periods) = last - MonthIndex(config.start_date) + 1
                    /\ \A i \in 1..Len(all_periods) :
                          /\ Len(all_periods[i]) = 7
                          /\ StrftimeYm(StrptimeYm(all_periods[i])) = all_periods[i]
                          /\ MonthIndex(StrptimeYm(all_periods[i]))
                                = MonthIndex(config.start_date) + i - 1

\* a monthly window across the turn of the year, starting and ending mid-month
C8_Witness ==
    /\ Constructed
    /\ config.period = "monthly"
    /\ config.start_date = Date(2023, 12, 15)
    /\ config.end_date = Date(2024, 2, 15)
    /\ all_periods = <<StrftimeYm(Date(2023, 12, 1)), StrftimeYm(Date(2024, 1, 1)),
                       StrftimeYm(Date(2024, 2, 1))>>

(***************************************************************************)
(* Properties of the Aggregator, stated over the history of raw groups.    *)
(***************************************************************************)
Profiles == ToSet(config.profiles)

\* the raw groups of the history that satisfy a condition, and their amounts
\* summed (a group fetched twice counts twice)
RECURSIVE SumAmounts(_)
SumAmounts(records) ==
    IF records = {} THEN 0
    ELSE LET r == CHOOSE x \in records : TRUE
         IN  r.amount * CopiesIn(r, fetched) + SumAmounts(records \ {r})

RawGroups == BagToSet(fetched)

\* the period a raw group belongs to
RecordPeriod(r) ==
    IF config.period = "monthly" THEN StrftimeYm(StrptimeYmd(r.start)) ELSE r.start

IsSupportName(name) ==
    /\ Len(name) >= Len(S_AWSSupport)
    /\ \A i \in 1..Len(S_AWSSupport) : name[i] = S_AWSSupport[i]

\* the group matches an exclusion predicate whose flag is enabled
DroppedByFlag(r) ==
    \/ config.exclude_support /\ IsSupportName(r.service)
    \/ config.exclude_taxes /\ r.service = S_Tax

Listed(name) == name \in ToSet(config.services)

\* the category a raw group is to be counted under
RouteOf(r) ==
    IF config.services = <<>> \/ Listed(r.service) THEN r.service ELSE S_Other

\* the groups of one account and period that no enabled flag drops
Counted(profile, period) ==
    {r \in RawGroups : r.profile = profile /\ RecordPeriod(r) = period /\ ~DroppedByFlag(r)}

InWindow(r) == \E i \in 1..Len(all_periods) : all_periods[i] = RecordPeriod(r)

StoredPeriods == {RecordPeriod(r) : r \in RawGroups}

StoredNames == ServiceNames \cup UNION {Keys(cost_data, profile) : profile \in Profiles}

Last(seq) == seq[Len(seq)]

ReportBuilt == report # NoReport

\* C1: with a non-empty allow-list, the grand total of the Total row of an
\* account's table equals the sum of the raw amounts fetched for that account
\* that no enabled exclusion flag drops, whatever the allow-list
C1_OtherFoldReconciliation ==
    (ReportBuilt /\ config.services # <<>> /\ \A r \in RawGroups : InWindow(r)) =>
        \A j \in 1..Len(config.profiles) :
            Last(report.profile_tables[j]).total
                = SumAmounts({r \in RawGroups :
                                r.profile = config.profiles[j] /\ ~DroppedByFlag(r)})

\* an account with a listed and an unlisted amount, in different periods
C1_Witness ==
    /\ ReportBuilt
    /\ config.services = <<S_EC2>>
    /\ \E r1, r2 \in RawGroups :
          /\ r1.profile = S_dev /\ r2.profile = S_dev
          /\ r1.service = S_EC2 /\ r2.service = S_S3
          /\ r1.amount > 0 /\ r2.amount > 0
          /\ RecordPeriod(r1) # RecordPeriod(r2)
    /\ Last(report.profile_tables[2]).total = 2

\* C3: a raw group matching an exclusion predicate whose flag is enabled adds
\* nothing to any cell, neither to its own category nor to "Other"; with the
\* flag disabled it is counted like any other group
C3_ExclusionBeforeRouting ==
    \A profile \in Profiles :
        /\ config.exclude_support =>
              \A name \in Keys(cost_data, profile) : ~IsSupportName(name)
        /\ config.exclude_taxes => S_Tax \notin Keys(cost_data, profile)
        /\ \A period \in StoredPeriods :
              /\ PeriodTotal(cost_data, profile, period)
                    = SumAmounts(Counted(profile, period))
              /\ \A name \in {S_Tax, S_AWSSupportB} :
                    Cell(cost_data, profile, RouteOf([service |-> name]), period)
                        >= SumAmounts({r \in Counted(profile, period) : r.service = name})

\* an excluded support group next to an unlisted group that is kept
C3_Witness ==
    /\ config.exclude_support /\ ~config.exclude_taxes
    /\ config.services = <<S_EC2>>
    /\ \E r1, r2 \in RawGroups :
          /\ r1.profile = S_prod /\ r2.profile = S_prod
          /\ r1.start = r2.start
          /\ r1.service = S_AWSSupportB /\ r1.amount > 0
          /\ r2.service = S_Tax /\ r2.amount > 0
          /\ Cell(cost_data, S_prod, S_Other, RecordPeriod(r1)) = r2.amount

\* C4: with a non-empty allow-list every counted group of a listed category is
\* in the cell of its account, category and period, every counted group of an
\* unlisted category is in the "Other" cell of its account and period, and no
\* amount is in two cells
C4_AllowListRouting ==
    config.services # <<>> =>
        \A profile \in Profiles :
            /\ Keys(cost_data, profile) \subseteq ToSet(config.services) \cup {S_Other}
            /\ \A period \in StoredPeriods :
                  /\ \A name \in ToSet(config.services) \ {S_Other} :
                        Cell(cost_data, profile, name, period)
                            = SumAmounts({r \in Counted(profile, period) : r.service = name})
                  /\ Cell(cost_data, profile, S_Other, period)
                        = SumAmounts({r \in Counted(profile, period) :
                                        ~Listed(r.service) \/ r.service = S_Other})

\* a listed and an unlisted group of one account and period
C4_Witness ==
    /\ config.services = <<S_EC2>>
    /\ \E r1, r2 \in RawGroups :
          /\ r1.profile = S_prod /\ r2.profile = S_prod
          /\ r1.start = r2.start
          /\ r1.service = S_EC2 /\ r1.amount > 0
          /\ r2.service = S_S3 /\ r2.amount > 0
          /\ Cell(cost_data, S_prod, S_EC2, RecordPeriod(r1)) = r1.amount
          /\ Cell(cost_data, S_prod, S_Other, RecordPeriod(r1)) = r2.amount

\* C6: every cell holds the sum of all amounts routed to it, whatever the order
\* in which the groups were processed
C6_CellsAreSums ==
    \A profile \in Profiles : \A period \in StoredPeriods : \A name \in StoredNames :
        Cell(cost_data, profile, name, period)
            = SumAmounts({r \in Counted(profile, period) : RouteOf(r) = name})

\* two contributions to one cell
C6_Witness ==
    \E r \in RawGroups :
        /\ r.amount > 0
        /\ r.service = S_EC2
        /\ CopiesIn(r, fetched) = 2
        /\ Cell(cost_data, r.profile, S_EC2, RecordPeriod(r)) = 2 * r.amount

(***************************************************************************)
(* Properties of the tables.                                               *)
(***************************************************************************)
ServiceTables ==
    {report.profile_tables[j] : j \in 1..Len(report.profile_tables)}
        \cup {report.service_total}

AllTables == ServiceTables \cup {report.account_total}

RowLabels(table) == {table[k].label : k \in 1..Len(table)}

RECURSIVE SumFn(_, _)
SumFn(f, S) ==
    IF S = {} THEN 0
    ELSE LET x == CHOOSE y \in S : TRUE IN f[x] + SumFn(f, S \ {x})

\* the rows above the Total row add up to it, in one column
ColumnAddsUp(table, i) ==
    Last(table).cells[i]
        = SumFn([k \in 1..(Len(table) - 1) |-> table[k].cells[i]], 1..(Len(table) - 1))

TotalColumnAddsUp(table) ==
    Last(table).total
        = SumFn([k \in 1..(Len(table) - 1) |-> table[k].total], 1..(Len(table) - 1))

\* C2: in each table, for every period column and for the Total column, the
\* Total row equals the sum of the rows displayed above it
C2_TotalRowSumsDisplayedRows ==
    ReportBuilt =>
        \A table \in AllTables :
            /\ \A i \in 1..Len(all_periods) : ColumnAddsUp(table, i)
            /\ TotalColumnAddsUp(table)

NoOtherShown ==
    /\ ReportBuilt => \A table \in AllTables : S_Other \notin RowLabels(table)
    /\ \A profile \in Profiles :
          ~InList(S_Other, ChartServicesForProfile(config, cost_data, profile))
    /\ ~InList(S_Other, ChartServicesAcrossProfiles(config, cost_data))

\* C5 as stated: with an empty allow-list no "Other" cell is ever created and
\* no row or chart entity is named "Other"
C5_NoOtherCellEver ==
    config.services = <<>> =>
        /\ \A profile \in Profiles : S_Other \notin Keys(cost_data, profile)
        /\ NoOtherShown

\* C5 as amended: with an empty allow-list every counted category is kept under
\* its own name, a cell named "Other" exists only for raw groups whose category
\* is literally "Other" and holds their amounts alone, and no row or chart
\* entity is named "Other"
C5_EmptyAllowListKeepsVerbatim ==
    config.services = <<>> =>
        /\ \A profile \in Profiles :
              /\ \A period \in StoredPeriods : \A name \in StoredNames :
                    Cell(cost_data, profile, name, period)
                        = SumAmounts({r \in Counted(profile, period) : r.service = name})
              /\ S_Other \in Keys(cost_data, profile) =>
                    \E r \in RawGroups : r.profile = profile /\ r.service = S_Other
        /\ NoOtherShown

\* an empty allow-list and a raw group named "Other", after the report
C5_Witness ==
    /\ ReportBuilt
    /\ config.services = <<>>
    /\ \E r \in RawGroups :
          /\ r.service = S_Other /\ r.amount > 0 /\ r.profile = S_prod
          /\ Cell(cost_data, S_prod, S_Other, RecordPeriod(r)) = r.amount
    /\ \E r \in RawGroups : r.service = S_S3 /\ r.profile = S_prod
    /\ RowLabels(report.profile_tables[1]) = {S_S3, S_Total}

(***************************************************************************)
(* Properties of the Sort Policy.                                          *)
(***************************************************************************)
Count(list, x) == Cardinality({i \in 1..Len(list) : list[i] = x})

IsPermutation(in, out) ==
    /\ Len(in) = Len(out)
    /\ \A x \in ToSet(in) \cup ToSet(out) : Count(in, x) = Count(out, x)

Position(list, x) == CHOOSE i \in 1..Len(list) : list[i] = x

NameOrdered(out) ==
    \A i, j \in 1..Len(out) : i < j => ~StrLess(out[j], out[i])

\* totals non-increasing, equal totals in input order; total maps names to totals
TotalOrdered(in, out, total) ==
    \A i, j \in 1..Len(out) :
        i < j => /\ total[out[i]] >= total[out[j]]
                 /\ total[out[i]] = total[out[j]]
                       => Position(in, out[i]) < Position(in, out[j])

PolicyOrdered(in, out, total) ==
    /\ IsPermutation(in, out)
    /\ config.sort_by = "name" => NameOrdered(out)
    /\ config.sort_by = "total_cost" => TotalOrdered(in, out, total)

PeriodSet == ToSet(all_periods)

\* the total of a service over the report periods and a set of accounts
ServiceTotalOver(service, accounts) ==
    SumFn([pp \in accounts \X PeriodSet |-> Cell(cost_data, pp[1], service, pp[2])],
          accounts \X PeriodSet)

\* the total of an account over the report periods and every stored category
AccountTotal(profile) ==
    SumFn([sp \in Keys(cost_data, profile) \X PeriodSet |->
              Cell(cost_data, profile, sp[1], sp[2])],
          Keys(cost_data, profile) \X PeriodSet)

\* C9: the Sort Policy returns a permutation of its input, by name in
\* non-decreasing order, by total_cost in non-increasing order of the totals
\* over the report periods with equal totals in input order, for categories
\* (of one account, or across the configured accounts) and for accounts
C9_SortPolicy ==
    /\ \A profile \in Profiles :
          \A in \in Orderings(AllServicesForProfile(config, cost_data, profile)) :
              PolicyOrdered(in,
                  SortServicesByConfig(config, all_periods, cost_data, in, profile),
                  [s \in ToSet(in) |-> ServiceTotalOver(s, {profile})])
    /\ \A in \in Orderings(AllServicesAcrossProfiles(config, cost_data)) :
          PolicyOrdered(in,
              SortServicesByConfig(config, all_periods, cost_data, in, NoProfile),
              [s \in ToSet(in) |-> ServiceTotalOver(s, Profiles)])
    /\ \A in \in Orderings(Profiles) :
          PolicyOrdered(in,
              SortProfilesByConfig(config, all_periods, cost_data, in),
              [p \in ToSet(in) |-> AccountTotal(p)])

\* sorting by total_cost reorders the accounts and the categories, with a tie
C9_Witness ==
    /\ ReportBuilt
    /\ config.sort_by = "total_cost"
    /\ config.services = <<>>
    /\ AccountTotal(S_dev) > AccountTotal(S_prod)
    /\ report.account_total[1].label = S_dev
    /\ {S_EC2, S_S3} \subseteq Keys(cost_data, S_dev)
    /\ ServiceTotalOver(S_EC2, {S_dev}) = ServiceTotalOver(S_S3, {S_dev})

RowsOrdered(table, m) ==
    \A i, j \in 1..m :
        i < j => /\ config.sort_by = "name" => ~StrLess(table[j].label, table[i].label)
                 /\ config.sort_by = "total_cost" => table[i].total >= table[j].total

\* C10 as stated: all rows but the Total row, the "Other" row included, are in
\* Sort Policy order, and the Total row is last
C10_AllRowsInSortOrder ==
    ReportBuilt =>
        \A table \in AllTables :
            /\ Last(table).label = S_Total
            /\ RowsOrdered(table, Len(table) - 1)

\* the builder appends an "Other" row: the allow-list is not empty and "Other"
\* is listed or stored for one of the accounts
OtherAppended(accounts) ==
    /\ config.services # <<>>
    /\ \/ Listed(S_Other)
       \/ \E profile \in accounts : S_Other \in Keys(cost_data, profile)

SortedThenOtherThenTotal(table, appended) ==
    LET m == Len(table) - 1 - (IF appended THEN 1 ELSE 0)
    IN  /\ Last(table).label = S_Total
        /\ RowsOrdered(table, m)
        /\ appended => table[m + 1].label = S_Other

\* C10 as amended: the rows before the appended "Other" row and the Total row
\* are in Sort Policy order; the appended "Other" row, when present, follows
\* them whatever its total or name, and the Total row is last
C10_SortedRowsThenOtherThenTotal ==
    ReportBuilt =>
        /\ \A j \in 1..Len(config.profiles) :
              SortedThenOtherThenTotal(report.profile_tables[j],
                                       OtherAppended({config.profiles[j]}))
        /\ SortedThenOtherThenTotal(report.service_total, OtherAppended(Profiles))
        /\ SortedThenOtherThenTotal(report.account_total, FALSE)

\* an "Other" row with the largest total below a listed row, sorted by total
C10_Witness ==
    /\ ReportBuilt
    /\ config.sort_by = "total_cost"
    /\ config.services = <<S_EC2>>
    /\ Len(report.profile_tables[1]) = 3
    /\ report.profile_tables[1][1].label = S_EC2
    /\ report.profile_tables[1][2].label = S_Other
    /\ report.profile_tables[1][2].total > report.profile_tables[1][1].total
    /\ report.account_total[1].label = S_prod

(***************************************************************************)
(* Properties of the "Other" row.                                          *)
(***************************************************************************)
\* C11: the table of an account has an "Other" row only when the allow-list is
\* not empty and the "Other" cells of that account add up, over the report
\* periods, to a total other than zero
C11_OtherRowOnlyWhenNonzero ==
    ReportBuilt =>
        \A j \in 1..Len(config.profiles) :
            S_Other \in RowLabels(report.profile_tables[j]) =>
                /\ config.services # <<>>
                /\ ServiceTotalOver(S_Other, {config.profiles[j]}) # 0

(***************************************************************************)
(* Properties of the renderings and of the chart datasets.                 *)
(***************************************************************************)
HtmlBuilt == html_report # NoHtml

\* the run has ended on an exception that nothing catches
Crashed == pc = "crashed"

\* C12: when both reports are configured, the HTML rendering succeeds where
\* the markdown rendering did, and its three kinds of table hold the header
\* cells and the rows of cells of the markdown tables, in the same order
C12_RenderingsAgree ==
    (report # NoReport /\ config.report_format = "both" /\ pc \in {"done", "crashed"}) =>
        /\ HtmlBuilt
        /\ \A j \in 1..Len(config.profiles) :
              html_report.profile_tables[j]
                  = MarkdownServiceTable(config, all_periods, report.profile_tables[j])
        /\ html_report.account_total
              = MarkdownAccountTable(config, all_periods, report.account_total)
        /\ html_report.service_total
              = MarkdownServiceTable(config, all_periods, report.service_total)

\* the labels of the rows of a rendered table above its Total row
EntityRows(table) == [k \in 1..(Len(table.rows) - 1) |-> table.rows[k][1]]

\* the labels of the series of a stacked chart
SeriesLabels(chart) == [i \in 1..Len(chart.datasets) |-> chart.datasets[i].label]

\* C13: the entities of each stacked chart are the rows of the table of the same
\* scope above its Total row, in the same order
C13_ChartEntitiesAreTableRows ==
    HtmlBuilt =>
        /\ \A j \in 1..Len(config.profiles) :
              SeriesLabels(html_report.profile_charts[j])
                  = EntityRows(html_report.profile_tables[j])
        /\ SeriesLabels(html_report.service_charts) = EntityRows(html_report.service_total)
        /\ SeriesLabels(html_report.account_charts) = EntityRows(html_report.account_total)

\* the positions of a list of totals that are not zero, in order
NonZeroPositions(totals) ==
    LET NonZero(i) == totals[i] # 0
    IN  SelectSeq([i \in 1..Len(totals) |-> i], NonZero)

\* the pie holds, in order, the entities of the list whose total is not zero,
\* each with its total
PieOfEntities(pie, entities, totals) ==
    LET kept == NonZeroPositions(totals)
    IN  /\ pie.labels = [k \in 1..Len(kept) |-> entities[kept[k]]]
        /\ pie.data = [k \in 1..Len(kept) |-> totals[kept[k]]]

C15_ColorsCycleThroughPalette ==
    pc = "returned" =>
        /\ Len(colors) >= count
        /\ \A i \in 0..(count - 1) : colors[i + 1] = Palette[(i % 30) + 1]
        /\ count <= 30 =>
              \A i, j \in 1..count : colors[i] = colors[j] => i = j

\* more entities than two palettes hold
C15_Witness ==
    /\ pc = "returned"
    /\ count = 61
    /\ colors[61] = colors[1]
    /\ colors[60] = Palette[30]

(***************************************************************************)
(* Properties of the run: failures, aborts and the order of the fetches.   *)
(***************************************************************************)
\* a response of the run held a malformed record
MalformedSeen == \E i \in 1..Len(fetch_log) : fetch_log[i].outcome = "raised"

\* C17: after a response that held a malformed record the run has not aborted,
\* and every cell holds the sum of the well-formed records routed to it, those
\* before and after the malformed record included
C17_MalformedRecordSkippedAlone ==
    MalformedSeen =>
        /\ ~Crashed
        /\ \A profile \in Profiles : \A period \in StoredPeriods : \A name \in StoredNames :
              Cell(cost_data, profile, name, period)
                  = SumAmounts({r \in Counted(profile, period) : RouteOf(r) = name})

\* the run has ended without its reports: sys.exit(1) or an uncaught exception
Aborted == pc \in {"exit", "crashed"}

\* C19: a run aborts only in the validation of its configuration, before any
\* account is fetched and before any record is aggregated
C19_ValidationIsTheOnlyAbort ==
    Aborted =>
        /\ fetch_log = <<>>
        /\ fetched = EmptyBag
        /\ cost_data = EmptyDict
        /\ ValidateConfig(config) # "ok"

\* C20: the fetches made so far are those of the first configured accounts, in
\* the configured order and one per account, a failed one included; the
\* amounts in the table are those of the accounts fetched so far; this holds
\* under either sort policy
C20_FetchedOnceInConfiguredOrder ==
    /\ Len(fetch_log) = (IF pc = "fetch" THEN idx - 1 ELSE Len(config.profiles))
    /\ \A i \in 1..Len(fetch_log) : fetch_log[i].profile = config.profiles[i]
    /\ \A r \in RawGroups :
          \E i \in 1..Len(fetch_log) :
             fetch_log[i].profile = r.profile /\ fetch_log[i].outcome = "ok"
    /\ \A i \in 1..Len(config.profiles) :
          (i > Len(fetch_log) \/ fetch_log[i].outcome = "failed") =>
              \A period \in StoredPeriods : \A name \in StoredNames :
                  Cell(cost_data, config.profiles[i], name, period) = 0

\* the first account failed and was not fetched again, the second one was
\* fetched, under the sort by total cost
C20_Witness ==
    /\ pc = "report"
    /\ config.sort_by = "total_cost"
    /\ Len(fetch_log) = 2
    /\ fetch_log[1] = [profile |-> S_prod, outcome |-> "failed"]
    /\ fetch_log[2] = [profile |-> S_dev, outcome |-> "ok"]
    /\ \E r \in RawGroups : r.profile = S_dev /\ r.amount > 0

(***************************************************************************)
(* Properties of the findings dashboard.                                   *)
(***************************************************************************)
\* the colors of the findings charts, in order
DashboardPalette == SeverityColors \o additional_colors

\* the series of the chart across accounts that belongs to an account
SeriesOf(profile) ==
    {k \in 1..Len(dashboard.global_charts.datasets) :
        dashboard.global_charts.datasets[k].label = profile}

\* C16: once every account has been fetched, the dashboard is built whatever
\* the number of accounts, and the series of account i in the chart across
\* accounts has color i of the palette, counted cyclically
C16_EveryAccountGetsAColor ==
    (pc \in {"done", "crashed"} /\ ~MalformedSeen) =>
        /\ pc = "done"
        /\ \A i \in 1..Len(config.profiles) :
              \A k \in SeriesOf(config.profiles[i]) :
                  dashboard.global_charts.datasets[k].backgroundColor
                      = DashboardPalette[((i - 1) % Len(DashboardPalette)) + 1]

\* C18: an account whose fetch failed has no finding counted in any region
\* under any severity, every configured account has been fetched when the
\* dashboard is built, and a run without malformed finding ends with its
\* dashboard
C18_FailedAccountContributesZero ==
    /\ \A i \in 1..Len(fetch_log) :
          fetch_log[i].outcome = "failed" =>
              \A region \in regions : \A k \in 1..Len(severity_order) :
                  FindingCount(findings_data, fetch_log[i].profile, region,
                               severity_order[k]) = 0
    /\ pc \in {"report", "done"} => Len(fetch_log) = Len(config.profiles)
    /\ (Failures > 0 /\ pc = "crashed") => MalformedSeen

(***************************************************************************)
(* Properties of the table as the input of the builders.                   *)
(***************************************************************************)
\* C21: a step that builds tables or chart datasets leaves the aggregation
\* table as it was: no key and no cell is added, removed or altered
C21_BuildersLeaveTableUnchanged ==
    [][(pc \in {"report", "html"}) => UNCHANGED cost_data]_vars

\* the cells of a table: account, category and period
CellsOf(cd) ==
    UNION {UNION {{<<profile, service, period>> : period \in DOMAIN cd[profile][service]} :
                     service \in DOMAIN cd[profile]} :
              profile \in DOMAIN cd}

\* something has been built from the table
BuildStarted == report # NoReport \/ html_report # NoHtml

\* a step keeps every cell of the table and never lowers its amount
TableGrows ==
    \A c \in CellsOf(cost_data) :
        /\ c \in CellsOf(cost_data')
        /\ Cell(cost_data', c[1], c[2], c[3]) >= Cell(cost_data, c[1], c[2], c[3])

\* a step changes the amount of no cell
AmountsKept ==
    \A c \in CellsOf(cost_data) \cup CellsOf(cost_data') :
        Cell(cost_data', c[1], c[2], c[3]) = Cell(cost_data, c[1], c[2], c[3])

\* C22: nothing is built before the fetch of every configured account has
\* ended; a step of the fetch loop keeps every cell of the table and never
\* lowers its amount; a step after the fetch loop changes the amount of no cell
C22_AppendOnlyThenImmutable ==
    /\ [](BuildStarted => (pc # "fetch" /\ Len(fetch_log) = Len(config.profiles)))
    /\ [][(pc = "fetch" => TableGrows)
            /\ (pc \notin {"load", "init", "fetch"} => AmountsKept)]_vars

\* both documents were built after a failed fetch and a fetch that stored an
\* amount
C22_Witness ==
    /\ report # NoReport
    /\ html_report # NoHtml
    /\ pc = "done"
    /\ fetch_log[1].outcome = "failed"
    /\ fetch_log[2].outcome = "ok"
    /\ \E c \in CellsOf(cost_data) : Cell(cost_data, c[1], c[2], c[3]) > 0

(***************************************************************************)
(* Properties of the tables of a window without a period.                  *)
(***************************************************************************)
\* the fetches of a run over a window without a period have ended
ZeroPeriodRun ==
    /\ fetch_log # <<>>
    /\ all_periods = <<>>
    /\ pc \in {"done", "crashed"}
    /\ ~MalformedSeen

\* a table whose only value column is Total, with zero in every row
MinimalTable(table) ==
    /\ Len(table) >= 1
    /\ Last(table).label = S_Total
    /\ \A k \in 1..Len(table) : table[k].cells = <<>> /\ table[k].total = 0

\* the same table as rendered: the label column and the Total column
MinimalRendered(rendered, first) ==
    /\ rendered.headers = <<first, S_Total>>
    /\ Len(rendered.rows) >= 1
    /\ Last(rendered.rows)[1] = S_Total
    /\ \A k \in 1..Len(rendered.rows) :
          Len(rendered.rows[k]) = 2 /\ rendered.rows[k][2] = FormatCurrency(0)

\* C23: a run over a window without a period ends with every configured
\* document built, and each of its tables has the Total column only, a total
\* of zero in every row and a grand total of zero, whatever was fetched
C23_ZeroPeriodsMinimalTables ==
    ZeroPeriodRun =>
        /\ pc = "done"
        /\ config.report_format \in {"markdown", "both"} =>
              /\ Len(report.profile_tables) = Len(config.profiles)
              /\ \A table \in AllTables : MinimalTable(table)
        /\ config.report_format \in {"html", "both"} =>
              /\ Len(html_report.profile_tables) = Len(config.profiles)
              /\ \A j \in 1..Len(config.profiles) :
                    MinimalRendered(html_report.profile_tables[j], S_Service)
              /\ MinimalRendered(html_report.account_total, S_Account)
              /\ MinimalRendered(html_report.service_total, S_Service)

\* both documents of a window without a period, with an amount fetched for a
\* listed service and a "Taxes" row in the table
C23_Witness ==
    /\ ZeroPeriodRun
    /\ config.report_format = "both"
    /\ \E r \in RawGroups : r.service = S_EC2 /\ r.amount > 0 /\ r.profile = S_prod
    /\ html_report.profile_tables[1].rows
          = <<<<S_EC2, FormatCurrency(0)>>, <<S_Taxes, FormatCurrency(0)>>,
              <<S_Total, FormatCurrency(0)>>>>
    /\ Len(report.account_total) = 3

(***************************************************************************)
(* Properties of the table of the totals per account.                      *)
(***************************************************************************)
\* the labels of the rows of a table above its Total row
AccountRows(table) == [k \in 1..(Len(table) - 1) |-> table[k].label]

\* C24: the table of the totals per account has one row per configured
\* account, in Sort Policy order; the cell of an account for a period is the
\* sum of the amounts stored for the account in the period under any category,
\* the Total cell of the row is the sum of its cells, and the row of an account
\* without data holds zeros
C24_AccountTotalsTable ==
    ReportBuilt =>
        LET table == report.account_total
        IN  /\ Len(table) = Len(config.profiles) + 1
            /\ PolicyOrdered(config.profiles, AccountRows(table),
                             [p \in Profiles |-> AccountTotal(p)])
            /\ \A k \in 1..(Len(table) - 1) :
                  /\ Len(table[k].cells) = Len(all_periods)
                  /\ \A i \in 1..Len(all_periods) :
                        table[k].cells[i]
                            = SumAmounts(Counted(table[k].label, all_periods[i]))
                  /\ table[k].total = SumSeq(table[k].cells)
                  /\ (\A r \in RawGroups : r.profile # table[k].label) =>
                        /\ table[k].total = 0
                        /\ \A i \in 1..Len(all_periods) : table[k].cells[i] = 0

\* the account listed second comes first by total cost, with a listed
\* category and "Other" in one period; the other account has no data
C24_Witness ==
    /\ ReportBuilt
    /\ config.sort_by = "total_cost"
    /\ config.services = <<S_EC2>>
    /\ report.account_total[1].label = S_dev
    /\ report.account_total[1].cells[1] = 2
    /\ Cell(cost_data, S_dev, S_EC2, all_periods[1]) = 1
    /\ Cell(cost_data, S_dev, S_Other, all_periods[1]) = 1
    /\ report.account_total[2].label = S_prod
    /\ report.account_total[2].total = 0
    /\ fetch_log[1].outcome = "failed"

(***************************************************************************)
(* Properties of the grand totals.                                         *)
(***************************************************************************)
\* the Total cell of the Total row of a table
GrandTotal(table) == Last(table).total

\* C27: the grand total of the table of totals per account, the grand total
\* of the table of categories across accounts, and the sum of the grand totals
\* of the tables of the configured accounts are equal
C27_GrandTotalsAgree ==
    ReportBuilt =>
        /\ GrandTotal(report.account_total) = GrandTotal(report.service_total)
        /\ GrandTotal(report.account_total)
              = SumSeq([j \in 1..Len(config.profiles) |->
                           GrandTotal(report.profile_tables[j])])

\* amounts of two accounts, one of them under "Other", add up
C27_Witness ==
    /\ ReportBuilt
    /\ config.services = <<S_EC2>>
    /\ GrandTotal(report.profile_tables[1]) = 1
    /\ GrandTotal(report.profile_tables[2]) = 1
    /\ GrandTotal(report.service_total) = 2
    /\ \E t \in 1..Len(all_periods) : Cell(cost_data, S_dev, S_Other, all_periods[t]) = 1

\* the findings gone through whose severity is not INFORMATIONAL
Reported == BagCardinality(fetched) - SumFn([r \in BagToSet(fetched) |->
                IF r.severity = "INFORMATIONAL" THEN CopiesIn(r, fetched) ELSE 0],
                BagToSet(fetched))

\* C28: the findings in detailed_findings are the processed findings whose
\* severity is not INFORMATIONAL; in the dashboard built, the grand total of
\* the global summary table is their number, and the grand total of each
\* account's table is that account's Total cell in the global summary
C28_FindingsTotalsAgree ==
    /\ Len(detailed_findings) = Reported
    /\ pc = "done" =>
           /\ Last(dashboard.global_summary).total = Digits(Len(detailed_findings))
           /\ \A j \in 1..Len(config.profiles) :
                  Last(dashboard.account_tables[j]).total
                      = dashboard.global_summary[j].total

\* a dashboard built from two findings of one account in two regions, with an
\* INFORMATIONAL finding gone through and left out
C28_Witness ==
    /\ pc = "done"
    /\ Len(detailed_findings) = 2
    /\ BagCardinality(fetched) > 2
    /\ detailed_findings[1].account = detailed_findings[2].account
    /\ detailed_findings[1].region # detailed_findings[2].region
    /\ detailed_findings[1].severity # detailed_findings[2].severity
    /\ Last(dashboard.global_summary).total = Digits(2)

(***************************************************************************)
(* Properties of the Security Hub cleaner.                                 *)
(***************************************************************************)
\* C25: in dry-run mode no search calls batch_update_findings, whatever the
\* profiles, the searches and the findings returned
C25_DryRunNeverUpdates ==
    dry_run => last_search.calls = <<>>

\* a dry run that ended after a search that found more than a batch of
\* findings and counted them as updated
C25_Witness ==
    /\ dry_run
    /\ pc = "done"
    /\ last_search.outcome = "true"
    /\ Len(last_search.identifiers) > batch_size
    /\ total_updated >= Len(last_search.identifiers)

\* the batches of the calls made, one after the other
RECURSIVE Sent(_)
Sent(calls) ==
    IF calls = <<>> THEN <<>> ELSE Head(calls).FindingIdentifiers \o Sent(Tail(calls))

\* ceil(n / 100), by its definition
Ceil100(n) == CHOOSE c \in 0..n : 100 * c >= n /\ 100 * (c - 1) < n

\* no call of the latest workflow raised
NoCallRaised ==
    \A k \in 1..Len(last_search.responses) : last_search.responses[k].t = "response"

\* C26: in live mode _update_findings_workflow sends the identifiers in
\* consecutive batches of at most 100: when no call raises it makes
\* ceil(n / 100) calls, the batches one after the other are the input list
\* (every identifier in exactly one batch, in the order of the input), and
\* every batch but the last holds 100; for the empty list it makes no call
\* and returns True
C26_ConsecutiveBatches ==
    LET calls == last_search.calls
        n == Len(last_search.identifiers)
    IN  (~dry_run /\ pc # "call") =>
           /\ \A k \in 1..Len(calls) :
                  /\ Len(calls[k].FindingIdentifiers) \in 1..100
                  /\ calls[k].Workflow.Status = config.new_workflow_status
           /\ NoCallRaised =>
                  /\ Len(calls) = Ceil100(n)
                  /\ Sent(calls) = last_search.identifiers
                  /\ \A k \in 1..(Len(calls) - 1) :
                         Len(calls[k].FindingIdentifiers) = 100
           /\ n = 0 => (calls = <<>> /\ last_search.outcome = "true")

\* a live call that sent 201 identifiers in three batches, the last of one
C26_Witness ==
    /\ ~dry_run
    /\ pc = "returned"
    /\ NoCallRaised
    /\ Len(last_search.identifiers) = 201
    /\ Len(last_search.calls) = 3
    /\ Len(last_search.calls[3].FindingIdentifiers) = 1

\* the responses of a search: one of them is no response, or reports an
\* unprocessed finding
SearchFailed(s) ==
    \E k \in 1..Len(s.responses) :
        s.responses[k].t # "response" \/ s.responses[k].unprocessed > 0

\* every identifier of a search was sent, and every call answered
AllSent(s) ==
    /\ Len(s.calls) = Ceil100(Len(s.identifiers))
    /\ Len(s.responses) = Len(s.calls)

\* a search of a live run adds its identifiers to total_updated only if all
\* were sent and no call failed, and a search with a failure adds nothing
UpdatedOnlyOnSuccess ==
    /\ total_updated' \in {total_updated, total_updated + Len(last_search'.identifiers)}
    /\ (~dry_run /\ total_updated' # total_updated) =>
           (AllSent(last_search') /\ ~SearchFailed(last_search'))
    /\ SearchFailed(last_search') => total_updated' = total_updated

\* C29: total_updated never exceeds total_processed; in live mode a search adds
\* its findings to total_updated only if every batch was sent without a client
\* error and none reported an unprocessed finding; a search with a failed
\* finding adds nothing
C29_UpdatedOnlyOnSuccess ==
    /\ [](total_updated <= total_processed)
    /\ [][UpdatedOnlyOnSuccess]_vars

\* a live run that ended with findings updated by an earlier search and a
\* latest search whose second batch reported an unprocessed finding
C29_Witness ==
    /\ ~dry_run
    /\ pc = "done"
    /\ total_updated > 0
    /\ total_updated < total_processed
    /\ last_search.outcome = "false"
    /\ Len(last_search.responses) = 2
    /\ last_search.responses[2] = [t |-> "response", unprocessed |-> 1]

(***************************************************************************)
(* Properties of the Security Hub crawler.                                 *)
(***************************************************************************)
\* the exception that ended the calls of the handler, or none
LastRaised == IF api_calls = <<>> THEN NoException ELSE Last(api_calls).raised

\* describe_hub was called and failed with a ClientError
DescribeHubFailed ==
    \E k \in 1..Len(api_calls) :
        /\ api_calls[k].call = "describe_hub"
        /\ api_calls[k].raised.t = "exception"
        /\ api_calls[k].raised.client_error

Returned(status) == result.t = "returned" /\ result.status = status

\* C30: a result of the crawler has the status DISABLED, ENABLED or
\* ACCESS_DENIED; an account that is not ACTIVE gets DISABLED with an empty
\* master account id and standards "[]" without any call; an exception that
\* mentions AccessDenied gives ACCESS_DENIED; a describe_hub that fails with
\* another ClientError gives DISABLED; any other exception leaves the handler
C30_StatusByCase ==
    pc # "call" =>
       /\ result.t = "returned" => result.status \in {"DISABLED", "ENABLED", "ACCESS_DENIED"}
       /\ event.accountStatus # "ACTIVE" =>
              /\ api_calls = <<>>
              /\ Returned("DISABLED")
              /\ result.masterAccountId = <<>>
              /\ result.standards = S_no_standards
       /\ (LastRaised.t = "exception" /\ LastRaised.access_denied) =>
              Returned("ACCESS_DENIED")
       /\ (DescribeHubFailed /\ ~LastRaised.access_denied) => Returned("DISABLED")
       /\ (LastRaised.t = "exception" /\ ~LastRaised.access_denied /\ ~DescribeHubFailed) =>
              result.t = "raised"

====
